---- MODULE Spec2Model ----
(***************************************************************************)
(* Model of the build orchestration script gulpfile.mjs: one invocation of *)
(* one entry point (the dev-sandbox task, a target builder, the           *)
(* minification stage, or a direct createWebpackConfig call) against a     *)
(* file-system working directory.                                          *)
(*                                                                         *)
(* JavaScript values are encoded as follows: booleans and undefined are    *)
(* the strings "true", "false", "undefined"; a file's text is a tuple of   *)
(* strings; a path is a pair <<directory, relative name>>.                 *)
(***************************************************************************)
EXTENDS Naturals, Sequences, FiniteSets, TLC

VARIABLES
  task,           \* the entry point of this invocation
  dir,            \* the output directory handed to the target builder
  defines,        \* the flag set handed to the entry point by its caller
  globalDefines,  \* the module-level frozen object DEFINES
  envTesting,     \* process.env.TESTING
  options,        \* the options object handed to createWebpackConfig
  fs,             \* the file system: path -> text, or Absent
  pc,             \* position of the single JavaScript control flow
  idx,            \* index of the next fan-out branch to create
  scriptingSrc,   \* createSandboxBundle: the text read from the temp file
  sandboxDefines, \* createSandboxBundle: the merged flag set
  config,         \* the webpack configuration built last
  branches,       \* state of every stream of the fan-out set
  result,         \* what the task reported to gulp
  error,          \* the error that failed the task, if any
  minified,       \* parseMinified: the texts read and the minifier outputs
  readCount,      \* history: reads tried of the temporary scripting file
  unlinkCount,    \* history: deletions of the temporary scripting file
  cleared,        \* history: the output directory was removed by this build
  written,        \* history: paths written by this build's streams
  trace,          \* history: the two-phase sandbox build's steps, in order
  minifier,       \* parseMinified: the minify function the stage imports
  before,         \* history: the file system when parseMinified was called
  tmpNames,       \* history: the paths getTempFile returned while the
                  \* builder's body ran, in order; dropped once streams flow
  locals,         \* createBuildNumber: the variables its callbacks share
  doneCalls,      \* history: calls of a task's completion callback
  log,            \* console.log lines of createBuildNumber and
                  \* checkChromePreferencesFile
  contents,       \* the bundle text a chain of replace passes works on
  applied,        \* history: the text piped in and the passes run on it
  chromePrefs,    \* checkChromePreferencesFile: the parsed schema file
  webPrefs,       \* checkChromePreferencesFile: the viewer's preferences
  ret,            \* checkChromePreferencesFile: the value returned
  libDefines,     \* buildLib: the flag set handed to the preprocessor
  runs            \* the sandbox builds running at the same time, by number

vars == <<task, dir, defines, globalDefines, envTesting, options, fs, pc, idx,
          scriptingSrc, sandboxDefines, config, branches, result, error,
          minified, readCount, unlinkCount, cleared, written, trace,
          minifier, before, tmpNames, locals, doneCalls, log, contents, applied,
          chromePrefs, webPrefs, ret, libDefines, runs>>

\* The variables of the pure functions, which no build task touches.
pureVars == <<contents, applied, chromePrefs, webPrefs, ret>>

(***************************************************************************)
(* Bounds of the model.                                                    *)
(***************************************************************************)
\* How many files a previous build may have left in the output directory.
MaxStale == 1

(***************************************************************************)
(* JavaScript values.                                                      *)
(***************************************************************************)
T == "true"
F == "false"
Undefined == "undefined"
Null == "null"

Truthy(v) == v = T
Bool(b) == IF b THEN T ELSE F
\* a ?? b
Nullish(a, b) == IF a = Undefined \/ a = Null THEN b ELSE a

\* The text of no file: what the file system holds for a path that is absent.
Absent == <<"ENOENT">>
\* The text of an empty file, and of the empty string.
Empty == <<>>

\* Errors: a read, unlink or rename of a path that does not exist, a
\* failed bundler run, a rejected minify call.
NoError == <<>>
NoDefaultPreferences == <<"No default preferences found.">>
ModuleNotFound(p) == <<"ERR_MODULE_NOT_FOUND">> \o p
ENOENT(p) == <<"ENOENT">> \o p
WebpackError(b) == <<"webpack", b>>
MinifyError == <<"minify">>

(***************************************************************************)
(* Directories and paths.                                                  *)
(***************************************************************************)
DIRNAME == "__dirname"
BUILD_DIR == "build/"
GENERIC_DIR == "build/generic/"
COMPONENTS_DIR == "build/components/"
MINIFIED_DIR == "build/minified/"
LIB_DIR == "build/lib/"
DEFAULT_PREFERENCES_DIR == "build/default_preferences/"
TMP_DIR == "build/tmp/"
SANDBOX_DIR == "build/dev-sandbox/"

\* dir + name, with repeated separators collapsed as the file system does:
\* a path is the pair of its directory (ending in "/") and the name below it.
Under(d, rel) == <<d, rel>>

VersionJsonPath == Under(BUILD_DIR, "version.json")
ScriptingPath == Under(TMP_DIR, "pdf.scripting.js")
PrefsPath(d) == Under(DEFAULT_PREFERENCES_DIR \o d, "default_preferences.json")
AppOptionsPath(d) == Under(DEFAULT_PREFERENCES_DIR \o d, "app_options.mjs")

(***************************************************************************)
(* The file system: a map from the paths that exist to their text.         *)
(***************************************************************************)
NoFiles == [p \in {} |-> Empty]
Exists(fsys, p) == p \in DOMAIN fsys
\* fs.readFileSync(p).toString(), for a path that exists.
Read(fsys, p) == fsys[p]
\* Every file of the map `files` written, replacing what the path held.
WriteAll(fsys, files) ==
  [q \in DOMAIN fsys \cup DOMAIN files |->
     IF q \in DOMAIN files THEN files[q] ELSE fsys[q]]
WriteFile(fsys, p, text) == WriteAll(fsys, [q \in {p} |-> text])
\* fs.unlinkSync(p), for a path that exists.
Unlink(fsys, p) == [q \in DOMAIN fsys \ {p} |-> fsys[q]]
\* fs.renameSync(a, b), for a path a that exists: b is replaced in one step.
Rename(fsys, a, b) ==
  [q \in (DOMAIN fsys \ {a}) \cup {b} |-> IF q = b THEN fsys[a] ELSE fsys[q]]
\* rimraf.sync(d): the directory and everything below it.
Rimraf(fsys, d) == [q \in {x \in DOMAIN fsys : x[1] # d} |-> fsys[q]]
FilesUnder(fsys, d) == {x \in DOMAIN fsys : x[1] = d}

DEFINES ==
  [SKIP_BABEL |-> T, TESTING |-> Undefined, GENERIC |-> F, MOZCENTRAL |-> F,
   GECKOVIEW |-> F, CHROME |-> F, MINIFIED |-> F, COMPONENTS |-> F,
   LIB |-> F, IMAGE_DECODERS |-> F]

(***************************************************************************)
(* builder.merge(defaults, defines): a new flag set holding every key of   *)
(* either argument, the second argument winning.                           *)
(***************************************************************************)
merge(base, override) ==
  [k \in DOMAIN base \cup DOMAIN override |->
     IF k \in DOMAIN override THEN override[k] ELSE base[k]]

\* defines.KEY, undefined when the object has no such key.
Get(obj, k) == IF k \in DOMAIN obj THEN obj[k] ELSE Undefined

(***************************************************************************)
(* createWebpackConfig.                                                    *)
(***************************************************************************)
DefaultOptions ==
  [disableVersionInfo |-> F, disableSourceMaps |-> F,
   disableLicenseHeader |-> F, defaultPreferencesDir |-> Null]

\* JSON.parse of the file's text; Absent stands for the value of a read
\* that threw, which no caller gets to use.
getVersionJSON(fsys) ==
  IF Exists(fsys, VersionJsonPath) THEN Read(fsys, VersionJsonPath) ELSE Absent
getDefaultPreferences(fsys, d) ==
  IF Exists(fsys, PrefsPath(d)) THEN Read(fsys, PrefsPath(d)) ELSE Absent

\* The reads that make createWebpackConfig throw before it returns.
ConfigThrows(opts, fsys) ==
  \/ /\ ~Truthy(opts.disableVersionInfo)
     /\ ~Exists(fsys, VersionJsonPath)
  \/ /\ opts.defaultPreferencesDir # Null
     /\ ~Exists(fsys, PrefsPath(opts.defaultPreferencesDir))

\* BundleDefines with the arguments of the merge exchanged: the caller's
\* value of a key wins over the computed one.
BundleDefinesBaseWins(defs, opts, fsys, env) ==
  merge([BUNDLE_VERSION |->
           IF ~Truthy(opts.disableVersionInfo)
             THEN getVersionJSON(fsys) ELSE <<"0">>,
         BUNDLE_BUILD |->
           IF ~Truthy(opts.disableVersionInfo)
             THEN getVersionJSON(fsys) ELSE <<"0">>,
         TESTING |-> Nullish(Get(defs, "TESTING"), Bool(env = "true")),
         DEFAULT_PREFERENCES |->
           IF opts.defaultPreferencesDir # Null
             THEN getDefaultPreferences(fsys, opts.defaultPreferencesDir)
             ELSE Empty],
        defs)

\* BundleDefines with || in place of ??: a false TESTING yields to the
\* environment.
BundleDefinesTestingOr(defs, opts, fsys, env) ==
  merge(defs,
        [BUNDLE_VERSION |->
           IF ~Truthy(opts.disableVersionInfo)
             THEN getVersionJSON(fsys) ELSE <<"0">>,
         BUNDLE_BUILD |->
           IF ~Truthy(opts.disableVersionInfo)
             THEN getVersionJSON(fsys) ELSE <<"0">>,
         TESTING |-> IF Truthy(Get(defs, "TESTING"))
                       THEN Get(defs, "TESTING") ELSE Bool(env = "true"),
         DEFAULT_PREFERENCES |->
           IF opts.defaultPreferencesDir # Null
             THEN getDefaultPreferences(fsys, opts.defaultPreferencesDir)
             ELSE Empty])

BundleDefines(defs, opts, fsys, env) ==
  merge(defs,
        [BUNDLE_VERSION |->
           IF ~Truthy(opts.disableVersionInfo)
             THEN getVersionJSON(fsys) ELSE <<"0">>,
         BUNDLE_BUILD |->
           IF ~Truthy(opts.disableVersionInfo)
             THEN getVersionJSON(fsys) ELSE <<"0">>,
         TESTING |-> Nullish(Get(defs, "TESTING"), Bool(env = "true")),
         DEFAULT_PREFERENCES |->
           IF opts.defaultPreferencesDir # Null
             THEN getDefaultPreferences(fsys, opts.defaultPreferencesDir)
             ELSE Empty])

\* enableSourceMaps with the TESTING flag left out.
EnableSourceMapsDespiteTesting(bundleDefines, opts) ==
  /\ ~Truthy(Get(bundleDefines, "MOZCENTRAL"))
  /\ ~Truthy(Get(bundleDefines, "CHROME"))
  /\ ~Truthy(Get(bundleDefines, "LIB"))
  /\ ~Truthy(opts.disableSourceMaps)

EnableSourceMaps(bundleDefines, opts) ==
  /\ ~Truthy(Get(bundleDefines, "MOZCENTRAL"))
  /\ ~Truthy(Get(bundleDefines, "CHROME"))
  /\ ~Truthy(Get(bundleDefines, "LIB"))
  /\ ~Truthy(Get(bundleDefines, "TESTING"))
  /\ ~Truthy(opts.disableSourceMaps)

basicAlias ==
  [x \in {"pdfjs", "pdfjs-web", "pdfjs-lib"} |->
     CASE x = "pdfjs" -> "src"
       [] x = "pdfjs-web" -> "web"
       [] x = "pdfjs-lib" -> "web/pdfjs"]

LibrarySlots ==
  {"display-fetch_stream", "display-l10n_utils", "display-network",
   "display-node_stream", "display-node_utils", "display-svg"}

libraryAliasDefault == [x \in LibrarySlots |-> "src/display/stubs.js"]

viewerAliasDefault ==
  [x \in {"web-annotation_editor_params", "web-com",
          "web-pdf_attachment_viewer", "web-pdf_cursor_tools",
          "web-pdf_document_properties", "web-pdf_find_bar",
          "web-pdf_layer_viewer", "web-pdf_outline_viewer",
          "web-pdf_presentation_mode", "web-pdf_sidebar",
          "web-pdf_thumbnail_viewer", "web-print_service",
          "web-secondary_toolbar", "web-toolbar"} |->
     CASE x = "web-annotation_editor_params" ->
            "web/annotation_editor_params.js"
       [] x = "web-com" -> ""
       [] x = "web-pdf_attachment_viewer" -> "web/pdf_attachment_viewer.js"
       [] x = "web-pdf_cursor_tools" -> "web/pdf_cursor_tools.js"
       [] x = "web-pdf_document_properties" ->
            "web/pdf_document_properties.js"
       [] x = "web-pdf_find_bar" -> "web/pdf_find_bar.js"
       [] x = "web-pdf_layer_viewer" -> "web/pdf_layer_viewer.js"
       [] x = "web-pdf_outline_viewer" -> "web/pdf_outline_viewer.js"
       [] x = "web-pdf_presentation_mode" -> "web/pdf_presentation_mode.js"
       [] x = "web-pdf_sidebar" -> "web/pdf_sidebar.js"
       [] x = "web-pdf_thumbnail_viewer" -> "web/pdf_thumbnail_viewer.js"
       [] x = "web-print_service" -> ""
       [] x = "web-secondary_toolbar" -> "web/secondary_toolbar.js"
       [] x = "web-toolbar" -> "web/toolbar.js"]

ViewerSlots == DOMAIN viewerAliasDefault

\* obj with the keys of upd assigned (obj[key] = value for each).
Assign(obj, upd) == merge(obj, upd)

\* libraryAlias with the GENERIC test dropped from the second branch.
libraryAliasElseGeneric(bundleDefines) ==
  IF Truthy(Get(bundleDefines, "CHROME"))
    THEN Assign(libraryAliasDefault,
                [x \in {"display-fetch_stream", "display-network"} |->
                   IF x = "display-fetch_stream"
                     THEN "src/display/fetch_stream.js"
                     ELSE "src/display/network.js"])
    ELSE [x \in LibrarySlots |->
            CASE x = "display-fetch_stream" -> "src/display/fetch_stream.js"
              [] x = "display-l10n_utils" -> "web/l10n_utils.js"
              [] x = "display-network" -> "src/display/network.js"
              [] x = "display-node_stream" -> "src/display/node_stream.js"
              [] x = "display-node_utils" -> "src/display/node_utils.js"
              [] x = "display-svg" -> "src/display/svg.js"]

\* libraryAlias with the CHROME branch also assigning the Node.js files.
libraryAliasChromeNode(bundleDefines) ==
  IF Truthy(Get(bundleDefines, "CHROME"))
    THEN Assign(libraryAliasDefault,
                [x \in {"display-fetch_stream", "display-network",
                        "display-node_stream", "display-node_utils"} |->
                   CASE x = "display-fetch_stream" ->
                          "src/display/fetch_stream.js"
                     [] x = "display-network" -> "src/display/network.js"
                     [] x = "display-node_stream" ->
                          "src/display/node_stream.js"
                     [] x = "display-node_utils" ->
                          "src/display/node_utils.js"])
  ELSE IF Truthy(Get(bundleDefines, "GENERIC"))
    THEN [x \in LibrarySlots |->
            CASE x = "display-fetch_stream" -> "src/display/fetch_stream.js"
              [] x = "display-l10n_utils" -> "web/l10n_utils.js"
              [] x = "display-network" -> "src/display/network.js"
              [] x = "display-node_stream" -> "src/display/node_stream.js"
              [] x = "display-node_utils" -> "src/display/node_utils.js"
              [] x = "display-svg" -> "src/display/svg.js"]
  ELSE libraryAliasDefault

libraryAlias(bundleDefines) ==
  IF Truthy(Get(bundleDefines, "CHROME"))
    THEN Assign(libraryAliasDefault,
                [x \in {"display-fetch_stream", "display-network"} |->
                   IF x = "display-fetch_stream"
                     THEN "src/display/fetch_stream.js"
                     ELSE "src/display/network.js"])
  ELSE IF Truthy(Get(bundleDefines, "GENERIC"))
    THEN [x \in LibrarySlots |->
            CASE x = "display-fetch_stream" -> "src/display/fetch_stream.js"
              [] x = "display-l10n_utils" -> "web/l10n_utils.js"
              [] x = "display-network" -> "src/display/network.js"
              [] x = "display-node_stream" -> "src/display/node_stream.js"
              [] x = "display-node_utils" -> "src/display/node_utils.js"
              [] x = "display-svg" -> "src/display/svg.js"]
  ELSE libraryAliasDefault

gvAlias == [x \in {"web-toolbar"} |-> "web/toolbar-geckoview.js"]

\* viewerAlias with the GENERIC branch holding the CHROME assignments.
viewerAliasGenericAsChrome(bundleDefines) ==
  IF Truthy(Get(bundleDefines, "CHROME"))
       \/ Truthy(Get(bundleDefines, "GENERIC"))
    THEN Assign(viewerAliasDefault,
                [x \in {"web-com", "web-print_service"} |->
                   IF x = "web-com" THEN "web/chromecom.js"
                                    ELSE "web/pdf_print_service.js"])
    ELSE viewerAliasDefault

\* viewerAlias with the GENERIC test made before the CHROME test.
viewerAliasGenericFirst(bundleDefines) ==
  IF Truthy(Get(bundleDefines, "GENERIC"))
    THEN Assign(viewerAliasDefault,
                [x \in {"web-com", "web-print_service"} |->
                   IF x = "web-com" THEN "web/genericcom.js"
                                    ELSE "web/pdf_print_service.js"])
  ELSE IF Truthy(Get(bundleDefines, "CHROME"))
    THEN Assign(viewerAliasDefault,
                [x \in {"web-com", "web-print_service"} |->
                   IF x = "web-com" THEN "web/chromecom.js"
                                    ELSE "web/pdf_print_service.js"])
  ELSE IF Truthy(Get(bundleDefines, "MOZCENTRAL"))
    THEN Assign(
           IF Truthy(Get(bundleDefines, "GECKOVIEW"))
             THEN [key \in ViewerSlots |->
                     IF key \in DOMAIN gvAlias
                       THEN gvAlias[key] ELSE "web/stubs-geckoview.js"]
             ELSE viewerAliasDefault,
           [x \in {"web-com", "web-print_service"} |->
              IF x = "web-com" THEN "web/firefoxcom.js"
                               ELSE "web/firefox_print_service.js"])
  ELSE viewerAliasDefault

\* viewerAlias with the GECKOVIEW loop run after the Firefox assignments.
viewerAliasGeckoviewLast(bundleDefines) ==
  IF Truthy(Get(bundleDefines, "CHROME"))
    THEN Assign(viewerAliasDefault,
                [x \in {"web-com", "web-print_service"} |->
                   IF x = "web-com" THEN "web/chromecom.js"
                                    ELSE "web/pdf_print_service.js"])
  ELSE IF Truthy(Get(bundleDefines, "GENERIC"))
    THEN Assign(viewerAliasDefault,
                [x \in {"web-com", "web-print_service"} |->
                   IF x = "web-com" THEN "web/genericcom.js"
                                    ELSE "web/pdf_print_service.js"])
  ELSE IF Truthy(Get(bundleDefines, "MOZCENTRAL"))
    THEN IF Truthy(Get(bundleDefines, "GECKOVIEW"))
           THEN [key \in ViewerSlots |->
                   IF key \in DOMAIN gvAlias
                     THEN gvAlias[key] ELSE "web/stubs-geckoview.js"]
           ELSE Assign(viewerAliasDefault,
                       [x \in {"web-com", "web-print_service"} |->
                          IF x = "web-com" THEN "web/firefoxcom.js"
                                           ELSE "web/firefox_print_service.js"])
  ELSE viewerAliasDefault

viewerAlias(bundleDefines) ==
  IF Truthy(Get(bundleDefines, "CHROME"))
    THEN Assign(viewerAliasDefault,
                [x \in {"web-com", "web-print_service"} |->
                   IF x = "web-com" THEN "web/chromecom.js"
                                    ELSE "web/pdf_print_service.js"])
  ELSE IF Truthy(Get(bundleDefines, "GENERIC"))
    THEN Assign(viewerAliasDefault,
                [x \in {"web-com", "web-print_service"} |->
                   IF x = "web-com" THEN "web/genericcom.js"
                                    ELSE "web/pdf_print_service.js"])
  ELSE IF Truthy(Get(bundleDefines, "MOZCENTRAL"))
    THEN Assign(
           IF Truthy(Get(bundleDefines, "GECKOVIEW"))
             THEN [key \in ViewerSlots |->
                     IF key \in DOMAIN gvAlias
                       THEN gvAlias[key] ELSE "web/stubs-geckoview.js"]
             ELSE viewerAliasDefault,
           [x \in {"web-com", "web-print_service"} |->
              IF x = "web-com" THEN "web/firefoxcom.js"
                               ELSE "web/firefox_print_service.js"])
  ELSE viewerAliasDefault

\* path.join(__dirname, rel): the root itself for the empty string.
PathJoin(root, rel) == IF rel = "" THEN <<root>> ELSE <<root, rel>>

IsAbsolute(p) == Len(p) >= 1 /\ p[1] = DIRNAME

AliasUnjoined(bundleDefines) ==
  LET alias == merge(merge(basicAlias, libraryAlias(bundleDefines)),
                     viewerAlias(bundleDefines))
  IN  [key \in DOMAIN alias |-> <<alias[key]>>]

Alias(bundleDefines) ==
  LET alias == merge(merge(basicAlias, libraryAlias(bundleDefines)),
                     viewerAlias(bundleDefines))
  IN  [key \in DOMAIN alias |-> PathJoin(DIRNAME, alias[key])]

createWebpackConfig(defs, output, opts, fsys, env) ==
  LET bundleDefines == BundleDefines(defs, opts, fsys, env)
      enableSourceMaps == EnableSourceMaps(bundleDefines, opts)
  IN  [input |-> defs,
       output |-> output,
       alias |-> Alias(bundleDefines),
       devtool |-> IF enableSourceMaps THEN "source-map" ELSE Undefined,
       excludeGlyphlist |-> Bool(enableSourceMaps),
       banner |-> Bool(~Truthy(opts.disableLicenseHeader)),
       skipBabel |-> Get(bundleDefines, "SKIP_BABEL"),
       defines |-> bundleDefines]

\* No configuration built yet.
NoConfig == <<>>

(***************************************************************************)
(* Streams: what each branch of a fan-out set carries to its destination.  *)
(***************************************************************************)
\* The map holding the <<path, text>> pairs of S.
Files(S) == [p \in {e[1] : e \in S} |-> (CHOOSE e \in S : e[1] = p)[2]]

\* The text webpack emits for a bundle, and for the sandbox bundle, whose
\* define PDF_SCRIPTING_JS_SOURCE is compiled into it.
BundleText(name) == <<name>>
SandboxText(bundleDefines) ==
  <<"pdf.sandbox.js">> \o bundleDefines.PDF_SCRIPTING_JS_SOURCE
\* The text this run's compilation of src/pdf.scripting.js gives, and the
\* text an earlier run may have left in the temporary file.
ScriptingText == <<"pdf.scripting.js", "fresh">>
StaleScriptingText == <<"pdf.scripting.js", "stale">>

\* webpack-stream's output piped to gulp.dest(d + sub): the bundle, and its
\* source map when the configuration asks for one.
BundleOut(d, sub, name, text, devtool) ==
  Files({<<Under(d, sub \o name), text>>}
        \cup IF devtool = "source-map"
               THEN {<<Under(d, sub \o name \o ".map"), <<"map", name>>>>}
               ELSE {})

\* gulp.src(globs).pipe(gulp.dest(d + sub)): the files the globs match.
StaticOut(d, names) == Files({<<Under(d, n), <<"src", n>>>> : n \in names})

COMMON_WEB_FILES ==
  {"web/images/toolbarButton-print.svg", "web/debugger.css", "web/debugger.js"}
LocaleFiles ==
  {"web/locale/en-US/viewer.properties", "web/locale/locale.properties"}
CMapFiles == {"web/cmaps/78-H.bcmap", "web/cmaps/LICENSE"}
StandardFontFiles ==
  {"web/standard_fonts/FoxitSerif.pfb", "web/standard_fonts/LICENSE_FOXIT"}
COMPONENTS_IMAGES ==
  {"images/annotation-note.svg", "images/loading-icon.gif"}
LibFiles ==
  {"core/fonts.js", "pdf.js", "web/app.js", "test/unit/api_spec.js"}

GenericBranches ==
  <<"main", "worker", "sandbox", "web", "common", "license", "locale",
    "cmaps", "fonts", "html", "css", "pdf">>
MinifiedBranches ==
  <<"main", "worker", "sandbox", "web", "image_decoders", "common", "locale",
    "cmaps", "fonts", "html", "css", "pdf">>
ComponentsBranches == <<"components", "images", "css">>

BranchOrder(t) ==
  CASE t = "buildGeneric" -> GenericBranches
    [] t = "buildMinified" -> MinifiedBranches
    [] t = "buildComponents" -> ComponentsBranches
    [] OTHER -> <<>>

Range(seq) == {seq[i] : i \in 1..Len(seq)}

WebpackBranches ==
  {"main", "worker", "sandbox", "web", "image_decoders", "components",
   "scripting"}
AllBranches ==
  Range(GenericBranches) \cup Range(MinifiedBranches)
    \cup Range(ComponentsBranches) \cup {"scripting", "lib", "preferences"}

\* A stream's record: its state, and the devtool of the configuration its
\* bundler was started with (undefined for a stream without a bundler).
NoBranch == [st |-> "none", devtool |-> Undefined]
InFlight(devtool) == [st |-> "inflight", devtool |-> devtool]

\* The defaultPreferencesDir a target builder hands to createWebBundle.
PreferencesDirOf(t, defs) ==
  IF t = "buildMinified"
    THEN (IF Truthy(Get(defs, "SKIP_BABEL"))
            THEN "minified/" ELSE "minified-legacy/")
    ELSE (IF Truthy(Get(defs, "SKIP_BABEL"))
            THEN "generic/" ELSE "generic-legacy/")

\* The defines, output file, destination below dir and options of the
\* create*Bundle function behind a webpack branch.
BundleDefs(b, defs) ==
  IF b = "image_decoders" THEN merge(defs, [IMAGE_DECODERS |-> T]) ELSE defs
BundleName(b) ==
  CASE b = "main" -> "pdf.js"
    [] b = "worker" -> "pdf.worker.js"
    [] b = "sandbox" -> "pdf.sandbox.js"
    [] b = "web" -> "viewer.js"
    [] b = "image_decoders" -> "pdf.image_decoders.js"
    [] b = "components" -> "pdf_viewer.js"
    [] b = "scripting" -> "pdf.scripting.js"
BundleSub(b) ==
  CASE b \in {"main", "worker", "sandbox"} -> "build/"
    [] b = "web" -> "web/"
    [] b = "image_decoders" -> "image_decoders/"
    [] OTHER -> ""
BundleOptions(t, b, defs) ==
  IF b = "web"
    THEN [DefaultOptions EXCEPT
            !.defaultPreferencesDir = PreferencesDirOf(t, defs)]
    ELSE DefaultOptions

\* What a branch without a bundle copies or preprocesses into dir.
StaticBranchOut(t, b, d) ==
  CASE b = "common" -> StaticOut(d, COMMON_WEB_FILES)
    [] b = "license" -> StaticOut(d, {"LICENSE"})
    [] b = "locale" -> StaticOut(d, LocaleFiles)
    [] b = "cmaps" -> StaticOut(d, CMapFiles)
    [] b = "fonts" -> StaticOut(d, StandardFontFiles)
    [] b = "html" -> StaticOut(d, {"web/viewer.html"})
    [] b = "css" ->
         StaticOut(d, IF t = "buildComponents"
                        THEN {"pdf_viewer.css"} ELSE {"web/viewer.css"})
    [] b = "pdf" -> StaticOut(d, {"web/compressed.tracemonkey-pldi-09.pdf"})
    [] b = "images" -> StaticOut(d, COMPONENTS_IMAGES)

(***************************************************************************)
(* Initial states: the entry point called, its arguments, the environment  *)
(* and the working directory it finds.                                     *)
(***************************************************************************)
Tasks ==
  {"createWebpackConfig", "dev-sandbox", "buildGeneric", "buildComponents",
   "buildMinified", "buildLib", "createBuildNumber",
   "parseDefaultPreferences", "buildDefaultPreferences",
   "createGVWebBundle"}
\* The entry points that only build a configuration.
ConfigOnly == {"createWebpackConfig", "createGVWebBundle"}
TargetBuilders == {"buildGeneric", "buildComponents", "buildMinified"}

DirOf(t) ==
  CASE t = "buildGeneric" -> GENERIC_DIR
    [] t = "buildComponents" -> COMPONENTS_DIR
    [] t = "buildMinified" -> MINIFIED_DIR
    [] t = "buildLib" -> LIB_DIR
    [] t = "dev-sandbox" -> SANDBOX_DIR
    [] t \in {"parseDefaultPreferences", "buildDefaultPreferences"} ->
         "generic/"
    [] OTHER -> BUILD_DIR

Flags == {T, F}

\* The flag sets a caller derives from DEFINES for the entry point.
DefinesOf(t) ==
  CASE t = "createWebpackConfig" ->
         {merge(DEFINES, [CHROME |-> c, GENERIC |-> g, MOZCENTRAL |-> m,
                          GECKOVIEW |-> v, LIB |-> l, TESTING |-> x]) :
            c \in Flags, g \in Flags, m \in Flags, v \in Flags, l \in Flags,
            x \in {Undefined, Null, T, F}}
    [] t = "buildGeneric" ->
         {merge(DEFINES, [GENERIC |-> T, SKIP_BABEL |-> s]) : s \in Flags}
    [] t = "buildComponents" ->
         {merge(DEFINES, [COMPONENTS |-> T, GENERIC |-> T]),
          merge(DEFINES, [COMPONENTS |-> T])}
    [] t = "buildMinified" ->
         {merge(DEFINES, [MINIFIED |-> T, GENERIC |-> T]),
          merge(DEFINES, [MINIFIED |-> T])}
    [] t = "buildDefaultPreferences" ->
         {merge(DEFINES, [GENERIC |-> T]), merge(DEFINES, [CHROME |-> T]),
          merge(DEFINES, [MOZCENTRAL |-> T]), merge(DEFINES, [LIB |-> T]),
          merge(DEFINES, [GENERIC |-> T, TESTING |-> T]),
          merge(DEFINES, [GENERIC |-> T, TESTING |-> F])}
    [] t = "createGVWebBundle" ->
         {merge(DEFINES, [MOZCENTRAL |-> T]), merge(DEFINES, [GENERIC |-> T]),
          merge(DEFINES, [MOZCENTRAL |-> T, CHROME |-> T]), DEFINES}
    [] t = "buildLib" ->
         {merge(DEFINES, [GENERIC |-> T, LIB |-> T, SKIP_BABEL |-> s,
                          TESTING |-> x]) :
            s \in Flags, x \in {Undefined, T, F}}
    [] OTHER -> {DEFINES}

\* process.env.TESTING: unset, "true", or some other string.
EnvOf(t) ==
  IF t \in ConfigOnly \cup {"buildLib", "buildDefaultPreferences"}
    THEN {"true", "1", Undefined} ELSE {"true", Undefined}

OptionsOf(t) ==
  IF t = "createWebpackConfig"
    THEN [disableVersionInfo : Flags, disableSourceMaps : Flags,
          disableLicenseHeader : {F}, defaultPreferencesDir : {Null, "generic/"}]
  ELSE IF t = "createGVWebBundle"
    THEN {[DefaultOptions EXCEPT !.defaultPreferencesDir = d] :
            d \in {Null, "generic/"}}
    ELSE {DefaultOptions}

PreferencesDirs ==
  {"generic/", "generic-legacy/", "minified/", "minified-legacy/", "lib/",
   "lib-legacy/"}

StaleFiles(d, n) ==
  Files({<<Under(d, "stale-" \o ToString(i) \o ".js"), <<"stale">>>> :
           i \in 1..n})

\* build/default_preferences/<dir>/app_options.mjs as buildDefaultPreferences
\* bundles it: a module whose AppOptions holds the listed preferences.
AppOptionsModule(prefs) == <<"app_options.mjs">> \o prefs
\* AppOptions.getAll(OptionKind.PREFERENCE) of the imported module.
PreferencesOf(module) == Tail(module)
\* JSON.stringify(prefs)
PreferencesJson(prefs) == <<"prefs">> \o prefs

\* The working directories an invocation may find: build/version.json and
\* the default-preferences snapshots written or not by earlier tasks, the
\* temporary scripting bundle left or not by an earlier scripting phase, and
\* up to MaxStale files of a previous build in the output directory.
InitialFiles(t) ==
  {WriteAll(WriteAll(WriteAll(WriteAll(ver, prefs), tmp), stale), app) :
     ver \in {NoFiles, Files({<<VersionJsonPath, <<"version.json">>>>})},
     prefs \in {NoFiles,
                Files({<<PrefsPath(d), <<"prefs", d>>>> : d \in PreferencesDirs})},
     tmp \in IF t \in ConfigOnly THEN {NoFiles}
             ELSE {NoFiles, Files({<<ScriptingPath, StaleScriptingText>>})},
     stale \in IF t \in ConfigOnly THEN {NoFiles}
               ELSE {StaleFiles(DirOf(t), n) : n \in 0..MaxStale},
     app \in IF t = "parseDefaultPreferences"
              THEN {NoFiles} \cup
                   {Files({<<AppOptionsPath(DirOf(t)), AppOptionsModule(prefs_)>>}) :
                      prefs_ \in {<<>>, <<"enableScripting">>,
                                  <<"enableScripting", "sidebarViewOnLoad">>}}
              ELSE {NoFiles}}

FirstPc(t) ==
  CASE t = "createWebpackConfig" -> "createWebpackConfig"
    [] t = "dev-sandbox" -> "scriptingDevSandbox"
    [] t = "buildLib" -> "buildLib"
    [] t = "createBuildNumber" -> "createBuildNumber"
    [] t = "parseDefaultPreferences" -> "parseDefaultPreferences"
    [] t = "buildDefaultPreferences" -> "buildDefaultPreferences"
    [] t = "createGVWebBundle" -> "createGVWebBundle"
    [] OTHER -> "rimraf"

Init ==
  /\ task \in Tasks
  /\ dir = DirOf(task)
  /\ defines \in DefinesOf(task)
  /\ globalDefines = DEFINES
  /\ envTesting \in EnvOf(task)
  /\ options \in OptionsOf(task)
  /\ fs \in InitialFiles(task)
  /\ pc = FirstPc(task)
  /\ idx = 1
  /\ scriptingSrc = Absent
  /\ sandboxDefines = <<>>
  /\ config = NoConfig
  /\ branches = [b \in AllBranches |-> NoBranch]
  /\ result = "running"
  /\ error = NoError
  /\ minified = <<>>
  /\ readCount = 0
  /\ unlinkCount = 0
  /\ cleared = FALSE
  /\ written = {}
  /\ trace = <<>>
  /\ minifier = "terser"
  /\ before = NoFiles
  /\ tmpNames = <<>>
  /\ locals = <<>>
  /\ doneCalls = 0
  /\ libDefines = <<>>
  /\ runs = <<>>
  /\ log = <<>>
  /\ contents = <<>>
  /\ applied = <<>>
  /\ chromePrefs = <<>>
  /\ webPrefs = <<>>
  /\ ret = Undefined

(***************************************************************************)
(* Control flow.  Synchronous code runs one statement group per step; a    *)
(* stream does its I/O only while no synchronous code is running.          *)
(***************************************************************************)
Async ==
  pc \in {"awaitScripting", "await", "minify", "done", "thrown", "gitLog",
          "gitHash", "writeVersion"}

\* A synchronous throw: the task fails, streams already created live on.
Throw(e) ==
  /\ pc' = "thrown"
  /\ result' = "error"
  /\ error' = e

\* The error createWebpackConfig throws when ConfigThrows.
ConfigError(opts, fsys) ==
  IF ~Truthy(opts.disableVersionInfo) /\ ~Exists(fsys, VersionJsonPath)
    THEN ENOENT(VersionJsonPath)
    ELSE ENOENT(PrefsPath(opts.defaultPreferencesDir))

(***************************************************************************)
(* A direct call createWebpackConfig(defines, output, options).            *)
(***************************************************************************)
CallCreateWebpackConfig ==
  /\ pc = "createWebpackConfig"
  /\ IF ConfigThrows(options, fs)
       THEN Throw(ConfigError(options, fs)) /\ UNCHANGED config
       ELSE /\ config' = <<createWebpackConfig(defines, "bundle.js", options,
                                               fs, envTesting)>>
            /\ pc' = "done"
            /\ result' = "done"
            /\ UNCHANGED error
  /\ UNCHANGED <<task, dir, defines, globalDefines, envTesting, options, fs,
                 idx, scriptingSrc, sandboxDefines, branches, minified,
                 readCount, unlinkCount, cleared, written, trace>>
  /\ UNCHANGED <<minifier, before, tmpNames, locals, doneCalls, log, pureVars, libDefines, runs>>

(***************************************************************************)
(* createGVWebBundle(defines, options).                                    *)
(***************************************************************************)
GVDefines(defs) == merge(defs, [GECKOVIEW |-> T])
GVOptions(opts) ==
  [DefaultOptions EXCEPT !.defaultPreferencesDir = opts.defaultPreferencesDir]

\* The configuration is built and the stream returned; nothing is written.
CreateGVWebBundle ==
  /\ pc = "createGVWebBundle"
  /\ IF ConfigThrows(GVOptions(options), fs)
       THEN Throw(ConfigError(GVOptions(options), fs)) /\ UNCHANGED config
       ELSE /\ config' = <<createWebpackConfig(GVDefines(defines),
                                               "viewer-geckoview.js",
                                               GVOptions(options), fs,
                                               envTesting)>>
            /\ pc' = "done"
            /\ result' = "done"
            /\ UNCHANGED error
  /\ UNCHANGED <<task, dir, defines, globalDefines, envTesting, options, fs,
                 idx, scriptingSrc, sandboxDefines, branches, minified,
                 readCount, unlinkCount, cleared, written, trace>>
  /\ UNCHANGED <<minifier, before, tmpNames, locals, doneCalls, log, pureVars, libDefines, runs>>

(***************************************************************************)
(* The dev-sandbox task: series(scriptingDevSandbox, createDevSandbox).    *)
(***************************************************************************)
DevSandboxDefines == merge(globalDefines, [GENERIC |-> T, TESTING |-> T])
DevSandboxOptions == [DefaultOptions EXCEPT !.disableVersionInfo = T]

\* The options createTemporaryScriptingBundle hands to createScriptingBundle.
TemporaryScriptingOptions(extraOptions) ==
  [DefaultOptions EXCEPT
     !.disableVersionInfo = Bool(Truthy(extraOptions.disableVersionInfo)),
     !.disableSourceMaps = T,
     !.disableLicenseHeader = T]

\* scriptingDevSandbox: createTemporaryScriptingBundle starts the stream
\* that ends in gulp.dest(TMP_DIR).
ScriptingDevSandbox ==
  /\ pc = "scriptingDevSandbox"
  /\ LET opts == TemporaryScriptingOptions(DevSandboxOptions)
     IN  IF ConfigThrows(opts, fs)
           THEN Throw(ConfigError(opts, fs)) /\ UNCHANGED <<config, branches>>
           ELSE LET cfg == createWebpackConfig(DevSandboxDefines,
                             "pdf.scripting.js", opts, fs, envTesting)
                IN  /\ config' = <<cfg>>
                    /\ branches' =
                         [branches EXCEPT !["scripting"] =
                            InFlight(cfg.devtool)]
                    /\ pc' = "awaitScripting"
                    /\ UNCHANGED <<result, error>>
  /\ UNCHANGED <<task, dir, defines, globalDefines, envTesting, options, fs,
                 idx, scriptingSrc, sandboxDefines, minified, readCount,
                 unlinkCount, cleared, written, trace>>
  /\ UNCHANGED <<minifier, before, tmpNames, locals, doneCalls, log, pureVars, libDefines, runs>>

\* SeriesNext as gulp.parallel would run it: the second function starts
\* without waiting for the first one's stream.
SeriesNextWithoutWaiting ==
  /\ pc = "awaitScripting"
  /\ result = "running"
  /\ pc' = "createDevSandbox"
  /\ UNCHANGED <<task, dir, defines, globalDefines, envTesting, options, fs,
                 idx, scriptingSrc, sandboxDefines, config, branches, result,
                 error, minified, readCount, unlinkCount, cleared, written,
                 trace>>
  /\ UNCHANGED <<minifier, before, tmpNames, locals, doneCalls, log, pureVars, libDefines, runs>>

\* gulp.series: the second function starts once the first one's stream
\* has ended.
SeriesNext ==
  /\ pc = "awaitScripting"
  /\ result = "running"
  /\ branches["scripting"].st = "ended"
  /\ pc' = "createDevSandbox"
  /\ UNCHANGED <<task, dir, defines, globalDefines, envTesting, options, fs,
                 idx, scriptingSrc, sandboxDefines, config, branches, result,
                 error, minified, readCount, unlinkCount, cleared, written,
                 trace>>
  /\ UNCHANGED <<minifier, before, tmpNames, locals, doneCalls, log, pureVars, libDefines, runs>>

\* createDevSandbox, up to its call of createSandboxBundle.
CreateDevSandbox ==
  /\ pc = "createDevSandbox"
  /\ fs' = Rimraf(fs, SANDBOX_DIR)
  /\ cleared' = TRUE
  /\ pc' = "sbRead"
  /\ UNCHANGED <<task, dir, defines, globalDefines, envTesting, options, idx,
                 scriptingSrc, sandboxDefines, config, branches, result,
                 error, minified, readCount, unlinkCount, written, trace>>
  /\ UNCHANGED <<minifier, before, tmpNames, locals, doneCalls, log, pureVars, libDefines, runs>>

(***************************************************************************)
(* createSandboxBundle(defines, extraOptions).                             *)
(***************************************************************************)
SandboxArgDefines == IF task = "dev-sandbox" THEN DevSandboxDefines ELSE defines
SandboxArgOptions ==
  IF task = "dev-sandbox" THEN DevSandboxOptions ELSE DefaultOptions
\* SandboxRead with the missing file read as the empty string.
SandboxReadEmptyOnMissing ==
  /\ pc = "sbRead"
  /\ readCount' = readCount + 1
  /\ scriptingSrc' =
       IF Exists(fs, ScriptingPath) THEN Read(fs, ScriptingPath) ELSE Empty
  /\ trace' = Append(trace, "ScriptingRead")
  /\ pc' = "sbMerge"
  /\ UNCHANGED <<task, dir, defines, globalDefines, envTesting, options, fs,
                 idx, sandboxDefines, config, branches, result, error,
                 minified, unlinkCount, cleared, written>>
  /\ UNCHANGED <<minifier, before, tmpNames, locals, doneCalls, log, pureVars, libDefines, runs>>

\* fs.readFileSync(scriptingPath).toString()
SandboxRead ==
  /\ pc = "sbRead"
  /\ readCount' = readCount + 1
  /\ IF Exists(fs, ScriptingPath)
       THEN /\ scriptingSrc' = Read(fs, ScriptingPath)
            /\ trace' = Append(trace, "ScriptingRead")
            /\ pc' = "sbMerge"
            /\ UNCHANGED <<result, error>>
       ELSE Throw(ENOENT(ScriptingPath)) /\ UNCHANGED <<scriptingSrc, trace>>
  /\ UNCHANGED <<task, dir, defines, globalDefines, envTesting, options, fs,
                 idx, sandboxDefines, config, branches, minified, unlinkCount,
                 cleared, written>>
  /\ UNCHANGED <<minifier, before, tmpNames, locals, doneCalls, log, pureVars, libDefines, runs>>

\* sandboxDefines = builder.merge(defines, {PDF_SCRIPTING_JS_SOURCE: ...})
SandboxMerge ==
  /\ pc = "sbMerge"
  /\ sandboxDefines' =
       <<merge(SandboxArgDefines, [PDF_SCRIPTING_JS_SOURCE |-> scriptingSrc])>>
  /\ trace' = Append(trace, "SandboxDefineInjected")
  /\ pc' = "sbUnlink"
  /\ UNCHANGED <<task, dir, defines, globalDefines, envTesting, options, fs,
                 idx, scriptingSrc, config, branches, result, error, minified,
                 readCount, unlinkCount, cleared, written>>
  /\ UNCHANGED <<minifier, before, tmpNames, locals, doneCalls, log, pureVars, libDefines, runs>>

\* SandboxUnlink with the unlinkSync call left out.
SandboxUnlinkSkipped ==
  /\ pc = "sbUnlink"
  /\ pc' = "sbConfig"
  /\ UNCHANGED <<task, dir, defines, globalDefines, envTesting, options, fs,
                 idx, scriptingSrc, sandboxDefines, config, branches, result,
                 error, minified, readCount, unlinkCount, cleared, written,
                 trace>>
  /\ UNCHANGED <<minifier, before, tmpNames, locals, doneCalls, log, pureVars, libDefines, runs>>

\* fs.unlinkSync(scriptingPath)
SandboxUnlink ==
  /\ pc = "sbUnlink"
  /\ IF Exists(fs, ScriptingPath)
       THEN /\ fs' = Unlink(fs, ScriptingPath)
            /\ unlinkCount' = unlinkCount + 1
            /\ trace' = Append(trace, "ScriptingTempDeleted")
            /\ pc' = "sbConfig"
            /\ UNCHANGED <<result, error>>
       ELSE Throw(ENOENT(ScriptingPath))
            /\ UNCHANGED <<fs, unlinkCount, trace>>
  /\ UNCHANGED <<task, dir, defines, globalDefines, envTesting, options, idx,
                 scriptingSrc, sandboxDefines, config, branches, minified,
                 readCount, cleared, written>>
  /\ UNCHANGED <<minifier, before, tmpNames, locals, doneCalls, log, pureVars, libDefines, runs>>

\* createWebpackConfig(sandboxDefines, ...) and the stream built from it.
SandboxConfig ==
  /\ pc = "sbConfig"
  /\ IF ConfigThrows(SandboxArgOptions, fs)
       THEN Throw(ConfigError(SandboxArgOptions, fs))
            /\ UNCHANGED <<config, branches, idx>>
       ELSE LET cfg == createWebpackConfig(sandboxDefines[1], "pdf.sandbox.js",
                         SandboxArgOptions, fs, envTesting)
            IN  /\ config' = <<cfg>>
                /\ branches' =
                     [branches EXCEPT !["sandbox"] =
                        InFlight(cfg.devtool)]
                /\ IF task = "dev-sandbox"
                     THEN pc' = "await" /\ UNCHANGED idx
                     ELSE /\ idx' = idx + 1
                          /\ pc' = IF idx = Len(BranchOrder(task))
                                     THEN "await" ELSE "create"
                /\ UNCHANGED <<result, error>>
  /\ UNCHANGED <<task, dir, defines, globalDefines, envTesting, options, fs,
                 scriptingSrc, sandboxDefines, minified, readCount,
                 unlinkCount, cleared, written, trace>>
  /\ UNCHANGED <<minifier, before, tmpNames, locals, doneCalls, log, pureVars, libDefines, runs>>

(***************************************************************************)
(* The target builders buildGeneric, buildComponents and buildMinified.    *)
(***************************************************************************)
\* rimraf.sync(dir), the builder's first statement.
RimrafDir ==
  /\ pc = "rimraf"
  /\ task \in TargetBuilders
  /\ fs' = Rimraf(fs, dir)
  /\ cleared' = TRUE
  /\ pc' = "create"
  /\ UNCHANGED <<task, dir, defines, globalDefines, envTesting, options, idx,
                 scriptingSrc, sandboxDefines, config, branches, result,
                 error, minified, readCount, unlinkCount, written, trace>>
  /\ UNCHANGED <<minifier, before, tmpNames, locals, doneCalls, log, pureVars, libDefines, runs>>

\* The next element of the array handed to merge([...]) is a bundle other
\* than the sandbox: create*Bundle(defines).pipe(gulp.dest(dir + sub)).
CreateBundleBranch ==
  /\ pc = "create"
  /\ LET b == BranchOrder(task)[idx]
         opts == BundleOptions(task, b, defines)
     IN  /\ b \in WebpackBranches \ {"sandbox"}
         /\ IF ConfigThrows(opts, fs)
              THEN Throw(ConfigError(opts, fs))
                   /\ UNCHANGED <<config, branches, idx>>
              ELSE LET cfg == createWebpackConfig(BundleDefs(b, defines),
                                BundleName(b), opts, fs, envTesting)
                   IN  /\ config' = <<cfg>>
                       /\ branches' =
                            [branches EXCEPT ![b] =
                               InFlight(cfg.devtool)]
                       /\ idx' = idx + 1
                       /\ pc' = IF idx = Len(BranchOrder(task))
                                  THEN "await" ELSE "create"
                       /\ UNCHANGED <<result, error>>
  /\ UNCHANGED <<task, dir, defines, globalDefines, envTesting, options, fs,
                 scriptingSrc, sandboxDefines, minified, readCount,
                 unlinkCount, cleared, written, trace>>
  /\ UNCHANGED <<minifier, before, tmpNames, locals, doneCalls, log, pureVars, libDefines, runs>>

\* The next element is createSandboxBundle(defines).pipe(...).
CreateSandboxBranch ==
  /\ pc = "create"
  /\ BranchOrder(task)[idx] = "sandbox"
  /\ pc' = "sbRead"
  /\ UNCHANGED <<task, dir, defines, globalDefines, envTesting, options, fs,
                 idx, scriptingSrc, sandboxDefines, config, branches, result,
                 error, minified, readCount, unlinkCount, cleared, written,
                 trace>>
  /\ UNCHANGED <<minifier, before, tmpNames, locals, doneCalls, log, pureVars, libDefines, runs>>

\* crypto.randomBytes(6).toString("hex"): two of the values it can give.
RandomBytes == {"0a1b2c3d4e5f", "f5e4d3c2b1a0"}

\* The path getTempFile(prefix, suffix) builds from the random bytes.
TempFileNoSuffix(prefix, bytes, suffix) == Under(TMP_DIR, prefix \o bytes)
TempFile(prefix, bytes, suffix) == Under(TMP_DIR, prefix \o bytes \o suffix)

\* The suffix preprocessHTML and preprocessCSS ask getTempFile for; a branch
\* that does not preprocess asks for no file.
TempSuffix(b) ==
  CASE b = "html" -> ".html" [] b = "css" -> ".css" [] OTHER -> ""
Preprocesses(b) == b \in {"html", "css"}

\* preprocessHTML / preprocessCSS on the temporary file outName: getTempFile
\* writes it empty, builder.preprocess writes the output into it, it is read,
\* and unlinkSync removes it, all before the function returns.
PreprocessFiles(fsys, outName, b) ==
  LET created == WriteFile(fsys, outName, Empty)
      filled == WriteFile(created, outName, <<"preprocessed", b>>)
  IN  Unlink(filled, outName)

\* The next element copies or preprocesses source files.
CreateStaticBranch ==
  /\ pc = "create"
  /\ LET b == BranchOrder(task)[idx]
     IN  /\ b \notin WebpackBranches
         /\ branches' = [branches EXCEPT ![b] = InFlight(Undefined)]
         /\ IF Preprocesses(b)
              THEN \E bytes \in RandomBytes :
                     LET outName ==
                           TempFile("~preprocess", bytes, TempSuffix(b))
                     IN  /\ tmpNames' = Append(tmpNames, outName)
                         /\ fs' = PreprocessFiles(fs, outName, b)
              ELSE UNCHANGED <<tmpNames, fs>>
  /\ idx' = idx + 1
  /\ pc' = IF idx = Len(BranchOrder(task)) THEN "await" ELSE "create"
  /\ UNCHANGED <<task, dir, defines, globalDefines, envTesting, options,
                 scriptingSrc, sandboxDefines, config, result, error,
                 minified, readCount, unlinkCount, cleared, written, trace>>
  /\ UNCHANGED <<minifier, before, locals, doneCalls, log, pureVars, libDefines, runs>>

(***************************************************************************)
(* buildLib(defines, dir).                                                 *)
(***************************************************************************)
PreferencesDirOfLib(defs) ==
  IF Truthy(Get(defs, "SKIP_BABEL")) THEN "lib/" ELSE "lib-legacy/"

\* buildLib reads what createWebpackConfig reads with these options:
\* build/version.json and the default preferences of lib/ or lib-legacy/.
LibReads(defs) ==
  [DefaultOptions EXCEPT !.defaultPreferencesDir = PreferencesDirOfLib(defs)]

\* buildLib's bundleDefines with TESTING taken from the environment only.
LibDefinesEnvOnly(defs, fsys, env) ==
  merge(defs,
        [BUNDLE_VERSION |-> getVersionJSON(fsys),
         BUNDLE_BUILD |-> getVersionJSON(fsys),
         TESTING |-> Bool(env = "true"),
         DEFAULT_PREFERENCES |->
           getDefaultPreferences(fsys, PreferencesDirOfLib(defs))])

\* The bundleDefines buildLib hands to the preprocessor.
LibDefines(defs, fsys, env) ==
  merge(defs,
        [BUNDLE_VERSION |-> getVersionJSON(fsys),
         BUNDLE_BUILD |-> getVersionJSON(fsys),
         TESTING |-> Nullish(Get(defs, "TESTING"), Bool(env = "true")),
         DEFAULT_PREFERENCES |->
           getDefaultPreferences(fsys, PreferencesDirOfLib(defs))])

BuildLib ==
  /\ pc = "buildLib"
  /\ IF ConfigThrows(LibReads(defines), fs)
       THEN Throw(ConfigError(LibReads(defines), fs))
            /\ UNCHANGED <<branches, libDefines>>
       ELSE /\ libDefines' = <<LibDefines(defines, fs, envTesting)>>
            /\ branches' =
                 [branches EXCEPT !["lib"] = InFlight(Undefined)]
            /\ pc' = "await"
            /\ UNCHANGED <<result, error>>
  /\ UNCHANGED <<task, dir, defines, globalDefines, envTesting, options, fs,
                 idx, scriptingSrc, sandboxDefines, config, minified,
                 readCount, unlinkCount, cleared, written, trace>>
  /\ UNCHANGED <<minifier, before, tmpNames, locals, doneCalls, log, pureVars,
                 runs>>

(***************************************************************************)
(* Streams and their join.                                                 *)
(***************************************************************************)
\* The step of the two-phase sandbox build a stream's end stands for.
StreamEvent(b) ==
  CASE b = "scripting" -> <<"ScriptingBuilt">>
    [] b = "sandbox" -> <<"SandboxBuilt">>
    [] OTHER -> <<>>

\* Where the caller pipes the sandbox bundle.
SandboxDest == IF task = "dev-sandbox" THEN "" ELSE "build/"

\* The files stream b carries to its gulp.dest.
BranchOut(b) ==
  CASE b = "scripting" ->
         BundleOut(TMP_DIR, "", BundleName(b), ScriptingText,
                   branches[b].devtool)
    [] b = "sandbox" ->
         BundleOut(dir, SandboxDest, BundleName(b),
                   SandboxText(sandboxDefines[1]), branches[b].devtool)
    [] b = "lib" -> StaticOut(dir, LibFiles)
    [] b = "preferences" ->
         Files({<<AppOptionsPath(dir), AppOptionsModule(<<"enableScripting">>)>>})
    [] b \in WebpackBranches \ {"scripting", "sandbox"} ->
         BundleOut(dir, BundleSub(b), BundleName(b), BundleText(BundleName(b)),
                   branches[b].devtool)
    [] OTHER -> StaticBranchOut(task, b, dir)

\* A stream writes its files through gulp.dest and ends.
FinishBranch(b) ==
  /\ Async
  /\ branches[b].st = "inflight"
  /\ fs' = WriteAll(fs, BranchOut(b))
  /\ written' = written \cup DOMAIN BranchOut(b)
  /\ branches' = [branches EXCEPT ![b].st = "ended"]
  /\ trace' = trace \o StreamEvent(b)
  /\ UNCHANGED <<task, dir, defines, globalDefines, envTesting, options, pc,
                 idx, scriptingSrc, sandboxDefines, config, result, error,
                 minified, readCount, unlinkCount, cleared>>
  /\ tmpNames' = <<>>
  /\ UNCHANGED <<minifier, before, locals, doneCalls, log, pureVars, libDefines, runs>>

\* The bundler fails: the stream emits an error, which fails the task,
\* and writes nothing.  The other streams are not cancelled.  Only the
\* first error reaches gulp, so only a task still running takes this step.
FailBranch(b) ==
  /\ Async
  /\ result = "running"
  /\ b \in WebpackBranches
  /\ branches[b].st = "inflight"
  /\ branches' = [branches EXCEPT ![b].st = "failed"]
  /\ result' = "error"
  /\ error' = WebpackError(b)
  /\ UNCHANGED <<task, dir, defines, globalDefines, envTesting, options, fs,
                 pc, idx, scriptingSrc, sandboxDefines, config, minified,
                 readCount, unlinkCount, cleared, written, trace>>
  /\ tmpNames' = <<>>
  /\ UNCHANGED <<minifier, before, locals, doneCalls, log, pureVars, libDefines, runs>>

\* AllEnded as a join that ends with the first stream that ends.
AnyEnded(br) == \E b \in AllBranches : br[b].st = "ended"

\* Every stream handed to merge([...]) (for dev-sandbox and buildLib, the
\* one stream returned) has ended.
AllEnded(br) == \A b \in AllBranches : br[b].st \in {"none", "ended"}

\* The returned stream ends, and gulp reports the task complete.
MergeEnd ==
  /\ pc = "await"
  /\ result = "running"
  /\ AllEnded(branches)
  /\ pc' = "done"
  /\ result' = "done"
  /\ UNCHANGED <<task, dir, defines, globalDefines, envTesting, options, fs,
                 idx, scriptingSrc, sandboxDefines, config, branches, error,
                 minified, readCount, unlinkCount, cleared, written, trace>>
  /\ UNCHANGED <<minifier, before, tmpNames, locals, doneCalls, log, pureVars, libDefines, runs>>

(***************************************************************************)
(* parseMinified(dir), the stage that follows buildMinified.               *)
(***************************************************************************)
\* The text terser's minify returns for a text.
Minify(text) == <<"min">> \o text
\* The minify function the stage runs: terser's, or a stand-in that returns
\* its input unchanged.
Minifiers == {"terser", "identity"}
MinifyWith(fn, input) == IF fn = "identity" THEN input ELSE Minify(input)

\* The files the stage reads first.
MinifiedOriginals(d) ==
  {Under(d, "build/pdf.js"), Under(d, "build/pdf.worker.js"),
   Under(d, "build/pdf.sandbox.js"),
   Under(d, "image_decoders/pdf.image_decoders.js"),
   Under(d, "web/viewer.js")}

\* MinifyJobs writing each minified bundle over its original.
MinifyJobsInPlace(d, texts) ==
  <<[target |-> Under(d, "web/pdf.viewer.js"),
     input |-> texts[Under(d, "build/pdf.js")]
                 \o texts[Under(d, "web/viewer.js")]],
    [target |-> Under(d, "build/pdf.js"),
     input |-> texts[Under(d, "build/pdf.js")]],
    [target |-> Under(d, "build/pdf.worker.js"),
     input |-> texts[Under(d, "build/pdf.worker.js")]],
    [target |-> Under(d, "build/pdf.sandbox.js"),
     input |-> texts[Under(d, "build/pdf.sandbox.js")]],
    [target |-> Under(d, "image_decoders/pdf.image_decoders.js"),
     input |-> texts[Under(d, "image_decoders/pdf.image_decoders.js")]]>>

\* The five writeFileSync(target, (await minify(input)).code), in order.
MinifyJobs(d, texts) ==
  <<[target |-> Under(d, "web/pdf.viewer.js"),
     input |-> texts[Under(d, "build/pdf.js")]
                 \o texts[Under(d, "web/viewer.js")]],
    [target |-> Under(d, "build/pdf.min.js"),
     input |-> texts[Under(d, "build/pdf.js")]],
    [target |-> Under(d, "build/pdf.worker.min.js"),
     input |-> texts[Under(d, "build/pdf.worker.js")]],
    [target |-> Under(d, "build/pdf.sandbox.min.js"),
     input |-> texts[Under(d, "build/pdf.sandbox.js")]],
    [target |-> Under(d, "image_decoders/pdf.image_decoders.min.js"),
     input |-> texts[Under(d, "image_decoders/pdf.image_decoders.js")]]>>

\* CleanOps without the renameSync calls.
CleanOpsUnlinkOnly(d) ==
  <<[op |-> "unlink", from |-> Under(d, "web/viewer.js"),
     to |-> Under(d, "web/viewer.js")],
    [op |-> "unlink", from |-> Under(d, "web/debugger.js"),
     to |-> Under(d, "web/debugger.js")],
    [op |-> "unlink", from |-> Under(d, "build/pdf.js"),
     to |-> Under(d, "build/pdf.js")],
    [op |-> "unlink", from |-> Under(d, "build/pdf.worker.js"),
     to |-> Under(d, "build/pdf.worker.js")],
    [op |-> "unlink", from |-> Under(d, "build/pdf.sandbox.js"),
     to |-> Under(d, "build/pdf.sandbox.js")]>>

\* The unlinkSync and renameSync calls under "Cleaning js files", in order.
CleanOps(d) ==
  <<[op |-> "unlink", from |-> Under(d, "web/viewer.js"),
     to |-> Under(d, "web/viewer.js")],
    [op |-> "unlink", from |-> Under(d, "web/debugger.js"),
     to |-> Under(d, "web/debugger.js")],
    [op |-> "unlink", from |-> Under(d, "build/pdf.js"),
     to |-> Under(d, "build/pdf.js")],
    [op |-> "unlink", from |-> Under(d, "build/pdf.worker.js"),
     to |-> Under(d, "build/pdf.worker.js")],
    [op |-> "unlink", from |-> Under(d, "build/pdf.sandbox.js"),
     to |-> Under(d, "build/pdf.sandbox.js")],
    [op |-> "rename", from |-> Under(d, "build/pdf.min.js"),
     to |-> Under(d, "build/pdf.js")],
    [op |-> "rename", from |-> Under(d, "build/pdf.worker.min.js"),
     to |-> Under(d, "build/pdf.worker.js")],
    [op |-> "rename", from |-> Under(d, "build/pdf.sandbox.min.js"),
     to |-> Under(d, "build/pdf.sandbox.js")],
    [op |-> "rename",
     from |-> Under(d, "image_decoders/pdf.image_decoders.min.js"),
     to |-> Under(d, "image_decoders/pdf.image_decoders.js")]>>

\* The caller runs the stage on the directory buildMinified completed.
StartParseMinified ==
  /\ task = "buildMinified"
  /\ pc = "done"
  /\ task' = "parseMinified"
  /\ pc' = "minRead"
  /\ result' = "running"
  /\ minifier' \in Minifiers
  /\ before' = fs
  /\ UNCHANGED <<dir, defines, globalDefines, envTesting, options, fs, idx,
                 scriptingSrc, sandboxDefines, config, branches, error,
                 minified, readCount, unlinkCount, cleared, written, trace>>
  /\ UNCHANGED <<tmpNames, locals, doneCalls, log, pureVars, libDefines, runs>>

\* The five readFileSync calls.
ParseMinifiedRead ==
  /\ pc = "minRead"
  /\ IF \A p \in MinifiedOriginals(dir) : Exists(fs, p)
       THEN /\ minified' = [p \in MinifiedOriginals(dir) |-> Read(fs, p)]
            /\ idx' = 1
            /\ pc' = "minify"
            /\ UNCHANGED <<result, error>>
       ELSE Throw(ENOENT(CHOOSE p \in MinifiedOriginals(dir) : ~Exists(fs, p)))
            /\ UNCHANGED <<minified, idx>>
  /\ UNCHANGED <<task, dir, defines, globalDefines, envTesting, options, fs,
                 scriptingSrc, sandboxDefines, config, branches, readCount,
                 unlinkCount, cleared, written, trace>>
  /\ UNCHANGED <<minifier, before, tmpNames, locals, doneCalls, log, pureVars, libDefines, runs>>

\* One minify call resolves and its output is written.
MinifyWrite ==
  /\ pc = "minify"
  /\ LET job == MinifyJobs(dir, minified)[idx]
     IN  fs' = WriteFile(fs, job.target, MinifyWith(minifier, job.input))
  /\ idx' = IF idx = Len(MinifyJobs(dir, minified)) THEN 1 ELSE idx + 1
  /\ pc' = IF idx = Len(MinifyJobs(dir, minified)) THEN "clean" ELSE "minify"
  /\ UNCHANGED <<task, dir, defines, globalDefines, envTesting, options,
                 scriptingSrc, sandboxDefines, config, branches, result,
                 error, minified, readCount, unlinkCount, cleared, written,
                 trace>>
  /\ UNCHANGED <<minifier, before, tmpNames, locals, doneCalls, log, pureVars, libDefines, runs>>

\* One minify call rejects: the stage ends there.
MinifyFail ==
  /\ pc = "minify"
  /\ Throw(MinifyError)
  /\ UNCHANGED <<task, dir, defines, globalDefines, envTesting, options, fs,
                 idx, scriptingSrc, sandboxDefines, config, branches,
                 minified, readCount, unlinkCount, cleared, written, trace>>
  /\ UNCHANGED <<minifier, before, tmpNames, locals, doneCalls, log, pureVars, libDefines, runs>>

\* The next unlinkSync or renameSync; either throws when its file is absent.
CleanStep ==
  /\ pc = "clean"
  /\ LET c == CleanOps(dir)[idx]
     IN  IF Exists(fs, c.from)
           THEN /\ fs' = IF c.op = "unlink" THEN Unlink(fs, c.from)
                                            ELSE Rename(fs, c.from, c.to)
                /\ idx' = idx + 1
                /\ pc' = IF idx = Len(CleanOps(dir)) THEN "done" ELSE "clean"
                /\ result' = IF idx = Len(CleanOps(dir)) THEN "done" ELSE result
                /\ UNCHANGED error
           ELSE Throw(ENOENT(c.from)) /\ UNCHANGED <<fs, idx>>
  /\ UNCHANGED <<task, dir, defines, globalDefines, envTesting, options,
                 scriptingSrc, sandboxDefines, config, branches, minified,
                 readCount, unlinkCount, cleared, written, trace>>
  /\ UNCHANGED <<minifier, before, tmpNames, locals, doneCalls, log, pureVars, libDefines, runs>>

(***************************************************************************)
(* createBuildNumber(done).                                                *)
(***************************************************************************)
\* How many commits since the base version git log may list.
MaxCommits == 2

\* config.versionPrefix of pdfjs.config, and the abbreviated hash git prints.
versionPrefix == "4.0."
CommitHash == "0a1b2c3"

\* JSON.stringify({version, build, commit}, null, 2)
VersionJson(version, build, commit) ==
  <<"version.json", version, ToString(build), commit>>

NotAGitRepository ==
  <<"This is not a Git repository; using default build number.">>
BuildNumberLine(buildNumber) ==
  <<"Extension build number: " \o ToString(buildNumber)>>

\* The body of createBuildNumber: two lines are logged, git log is started.
CreateBuildNumber ==
  /\ pc = "createBuildNumber"
  /\ log' = log \o <<<<"">>, <<"### Getting extension build number">>>>
  /\ pc' = "gitLog"
  /\ UNCHANGED <<task, dir, defines, globalDefines, envTesting, options, fs,
                 idx, scriptingSrc, sandboxDefines, config, branches, result,
                 error, minified, readCount, unlinkCount, cleared, written,
                 trace>>
  /\ UNCHANGED <<minifier, before, tmpNames, locals, doneCalls, pureVars, libDefines, runs>>

\* The callback of `git log --format=oneline base..`: err is set when the
\* command failed, stdout holds one line for each commit otherwise.
GitLogCallback ==
  /\ pc = "gitLog"
  /\ \E err \in BOOLEAN, commits \in 0..MaxCommits :
       LET buildNumber == IF err THEN 0 ELSE commits
       IN  /\ locals' = <<[err |-> err, buildNumber |-> buildNumber,
                           version |-> versionPrefix \o ToString(buildNumber)]>>
           /\ log' = log \o (IF err THEN <<NotAGitRepository>> ELSE <<>>)
                         \o <<BuildNumberLine(buildNumber)>>
  /\ pc' = "gitHash"
  /\ UNCHANGED <<task, dir, defines, globalDefines, envTesting, options, fs,
                 idx, scriptingSrc, sandboxDefines, config, branches, result,
                 error, minified, readCount, unlinkCount, cleared, written,
                 trace>>
  /\ UNCHANGED <<minifier, before, tmpNames, doneCalls, pureVars, libDefines, runs>>

\* The callback of `git log --format="%h" -n 1`: the commit is the hash, or
\* the empty string when the command failed; the stream that writes
\* version.json is created.
GitHashCallback ==
  /\ pc = "gitHash"
  /\ \E err2 \in BOOLEAN :
       locals' = <<[err |-> locals[1].err, err2 |-> err2,
                    buildNumber |-> locals[1].buildNumber,
                    version |-> locals[1].version,
                    buildCommit |-> IF err2 THEN "" ELSE CommitHash]>>
  /\ pc' = "writeVersion"
  /\ UNCHANGED <<task, dir, defines, globalDefines, envTesting, options, fs,
                 idx, scriptingSrc, sandboxDefines, config, branches, result,
                 error, minified, readCount, unlinkCount, cleared, written,
                 trace>>
  /\ UNCHANGED <<minifier, before, tmpNames, doneCalls, log, pureVars, libDefines, runs>>

\* The stream has written build/version.json and ended: done is called.
VersionJsonEnd ==
  /\ pc = "writeVersion"
  /\ fs' = WriteFile(fs, VersionJsonPath,
                     VersionJson(locals[1].version, locals[1].buildNumber,
                                 locals[1].buildCommit))
  /\ written' = written \cup {VersionJsonPath}
  /\ doneCalls' = doneCalls + 1
  /\ result' = "done"
  /\ pc' = "done"
  /\ UNCHANGED <<task, dir, defines, globalDefines, envTesting, options, idx,
                 scriptingSrc, sandboxDefines, config, branches, error,
                 minified, readCount, unlinkCount, cleared, trace>>
  /\ UNCHANGED <<minifier, before, tmpNames, locals, log, pureVars, libDefines, runs>>

(***************************************************************************)
(* parseDefaultPreferences(dir).                                           *)
(***************************************************************************)
\* ParseDefaultPreferences without the check for an empty set.
ParseDefaultPreferencesWritesEmpty ==
  /\ pc = "parseDefaultPreferences"
  /\ IF ~Exists(fs, AppOptionsPath(dir))
       THEN /\ Throw(ModuleNotFound(AppOptionsPath(dir)))
            /\ UNCHANGED <<fs, written>>
       ELSE /\ fs' = WriteFile(fs, PrefsPath(dir),
                               PreferencesJson(
                                 PreferencesOf(Read(fs, AppOptionsPath(dir)))))
            /\ written' = written \cup {PrefsPath(dir)}
            /\ pc' = "done"
            /\ result' = "done"
            /\ UNCHANGED error
  /\ UNCHANGED <<task, dir, defines, globalDefines, envTesting, options, idx,
                 scriptingSrc, sandboxDefines, config, branches, minified,
                 readCount, unlinkCount, cleared, trace>>
  /\ UNCHANGED <<minifier, before, tmpNames, locals, doneCalls, log, pureVars, libDefines, runs>>

\* The module is imported, its preferences are extracted, and they are
\* written to default_preferences.json unless there are none.
ParseDefaultPreferences ==
  /\ pc = "parseDefaultPreferences"
  /\ IF ~Exists(fs, AppOptionsPath(dir))
       THEN /\ Throw(ModuleNotFound(AppOptionsPath(dir)))
            /\ UNCHANGED <<fs, written>>
       ELSE LET prefs == PreferencesOf(Read(fs, AppOptionsPath(dir)))
            IN  IF Len(prefs) = 0
                  THEN /\ Throw(NoDefaultPreferences)
                       /\ UNCHANGED <<fs, written>>
                  ELSE /\ fs' = WriteFile(fs, PrefsPath(dir),
                                          PreferencesJson(prefs))
                       /\ written' = written \cup {PrefsPath(dir)}
                       /\ pc' = "done"
                       /\ result' = "done"
                       /\ UNCHANGED error
  /\ UNCHANGED <<task, dir, defines, globalDefines, envTesting, options, idx,
                 scriptingSrc, sandboxDefines, config, branches, minified,
                 readCount, unlinkCount, cleared, trace>>
  /\ UNCHANGED <<minifier, before, tmpNames, locals, doneCalls, log, pureVars, libDefines, runs>>

(***************************************************************************)
(* buildDefaultPreferences(defines, dir).                                  *)
(***************************************************************************)
\* PreferencesDefines without the LIB flag.
PreferencesDefinesAsGiven(defs, env) ==
  merge(defs, [TESTING |-> Nullish(Get(defs, "TESTING"), Bool(env = "true"))])
\* The flag set and the options buildDefaultPreferences hands on.
PreferencesDefines(defs, env) ==
  merge(defs, [LIB |-> T,
               TESTING |-> Nullish(Get(defs, "TESTING"), Bool(env = "true"))])
PreferencesOptions == [DefaultOptions EXCEPT !.disableVersionInfo = T]

\* app_options.js is bundled into build/default_preferences/<dir>.
BuildDefaultPreferences ==
  /\ pc = "buildDefaultPreferences"
  /\ LET cfg == createWebpackConfig(PreferencesDefines(defines, envTesting),
                                    "app_options.mjs", PreferencesOptions,
                                    fs, envTesting)
     IN  /\ config' = <<cfg>>
         /\ branches' = [branches EXCEPT !["preferences"] = InFlight(cfg.devtool)]
  /\ pc' = "await"
  /\ UNCHANGED <<task, dir, defines, globalDefines, envTesting, options, fs,
                 idx, scriptingSrc, sandboxDefines, result, error, minified,
                 readCount, unlinkCount, cleared, written, trace>>
  /\ UNCHANGED <<minifier, before, tmpNames, locals, doneCalls, log, pureVars, libDefines, runs>>

(***************************************************************************)
(* The specification.                                                      *)
(***************************************************************************)
Next ==
  \/ CallCreateWebpackConfig
  \/ ScriptingDevSandbox
  \/ SeriesNext
  \/ CreateDevSandbox
  \/ SandboxRead
  \/ SandboxMerge
  \/ SandboxUnlink
  \/ SandboxConfig
  \/ RimrafDir
  \/ CreateBundleBranch
  \/ CreateSandboxBranch
  \/ CreateStaticBranch
  \/ BuildLib
  \/ \E b \in AllBranches : FinishBranch(b)
  \/ \E b \in AllBranches : FailBranch(b)
  \/ MergeEnd
  \/ StartParseMinified
  \/ ParseMinifiedRead
  \/ MinifyWrite
  \/ MinifyFail
  \/ CleanStep
  \/ CreateBuildNumber
  \/ GitLogCallback
  \/ GitHashCallback
  \/ VersionJsonEnd
  \/ ParseDefaultPreferences
  \/ BuildDefaultPreferences
  \/ CreateGVWebBundle

Spec == Init /\ [][Next]_vars

(***************************************************************************)
(* The text passes piped behind the bundler.  A text is a sequence of      *)
(* pieces of JavaScript source; the pieces are cut so that every           *)
(* occurrence of a searched string begins and ends at a piece boundary.    *)
(***************************************************************************)
\* How many fragments an input text is put together from, and how many
\* passes one text is piped through.
MaxPieces == 3
MaxPasses == 3

\* replace(search, replacement) of gulp-replace for a string search:
\* contents.split(search).join(replacement), every occurrence found from
\* the left, an occurrence starting only after the end of the one before.
RECURSIVE ReplaceAll(_, _, _)
ReplaceAll(s, search, replacement) ==
  IF Len(s) < Len(search) THEN s
  ELSE IF SubSeq(s, 1, Len(search)) = search
    THEN replacement
           \o ReplaceAll(SubSeq(s, Len(search) + 1, Len(s)), search,
                         replacement)
    ELSE <<s[1]>> \o ReplaceAll(Tail(s), search, replacement)

WebpackRequire == <<"__", "webpack_require", "__">>
PdfjsRequire == <<"__", "w_pdfjs_require", "__">>
NonWebpackImport == <<"__", "non_webpack_", "import", "__">>

replaceWebpackRequire(s) == ReplaceAll(s, WebpackRequire, PdfjsRequire)
replaceNonWebpackImport(s) == ReplaceAll(s, NonWebpackImport, <<"import">>)

\* 'root["' + amdName + '"] = factory()' and what replaces it.
RootAssign(amdName) == "root[\"" \o amdName \o "\"] = "
LegacyAssign(jsName) == "root." \o jsName \o " = "
Factory == "factory()"
\* replaceJSRootName dropping the module-system name.
replaceJSRootNameOnlyLegacy(amdName, jsName, s) ==
  ReplaceAll(s, <<RootAssign(amdName), Factory>>,
             <<LegacyAssign(jsName), Factory>>)
replaceJSRootName(amdName, jsName, s) ==
  ReplaceAll(s, <<RootAssign(amdName), Factory>>,
             <<RootAssign(amdName), LegacyAssign(jsName), Factory>>)
\* The replace(...) createScriptingBundle pipes in place of it.
replaceScriptingRoot(amdName, s) ==
  ReplaceAll(s, <<RootAssign(amdName), Factory>>,
             <<LegacyAssign("pdfjsScripting"), Factory>>)

\* The library name and the legacy global of each create*Bundle function.
AMDName(b) ==
  CASE b = "main" -> "pdfjs-dist/build/pdf"
    [] b = "scripting" -> "pdfjs-dist/build/pdf.scripting"
    [] b = "sandbox" -> "pdfjs-dist/build/pdf.sandbox"
    [] b = "worker" -> "pdfjs-dist/build/pdf.worker"
    [] b = "components" -> "pdfjs-dist/web/pdf_viewer"
    [] b = "image_decoders" -> "pdfjs-dist/image_decoders/pdf.image_decoders"
    [] OTHER -> ""
JSName(b) ==
  CASE b = "main" -> "pdfjsLib"
    [] b = "scripting" -> "pdfjsScripting"
    [] b = "sandbox" -> "pdfjsSandbox"
    [] b = "worker" -> "pdfjsWorker"
    [] b = "components" -> "pdfjsViewer"
    [] b = "image_decoders" -> "pdfjsImageDecoders"
    [] OTHER -> ""
LibraryBundles == {b \in WebpackBranches : AMDName(b) # ""}

\* The passes each create*Bundle function pipes, in order.
Passes ==
  {"replaceWebpackRequire", "replaceNonWebpackImport", "replaceJSRootName"}
ChainOf(b) ==
  CASE b = "web" -> <<"replaceNonWebpackImport">>
    [] b = "scripting" ->
         <<"replaceWebpackRequire", "replaceNonWebpackImport",
           "replaceScriptingRoot">>
    [] OTHER ->
         <<"replaceWebpackRequire", "replaceNonWebpackImport",
           "replaceJSRootName">>

RunPass(pass, b, s) ==
  CASE pass = "replaceWebpackRequire" -> replaceWebpackRequire(s)
    [] pass = "replaceNonWebpackImport" -> replaceNonWebpackImport(s)
    [] pass = "replaceJSRootName" -> replaceJSRootName(AMDName(b), JSName(b), s)
    [] pass = "replaceScriptingRoot" -> replaceScriptingRoot(AMDName(b), s)

RECURSIVE RunPasses(_, _, _)
RunPasses(passes, b, s) ==
  IF passes = <<>> THEN s
  ELSE RunPasses(Tail(passes), b, RunPass(Head(passes), b, s))

\* What webpack emits for a bundle: the UMD wrapper, which assigns the
\* factory's result to root[library] when a library name is configured, and
\* module code that uses __webpack_require__ and __non_webpack_import__.
WebpackOutput(b, uses) ==
  (IF b \in LibraryBundles
     THEN <<"(function(root, factory) {", RootAssign(AMDName(b)), Factory,
            "})(globalThis, () => {">>
     ELSE <<>>)
    \o (IF "require" \in uses
          THEN <<"var x = ">> \o WebpackRequire \o <<"(1);">> ELSE <<>>)
    \o (IF "import" \in uses
          THEN <<"await ">> \o NonWebpackImport \o <<"(url);">> ELSE <<>>)

\* The fragments arbitrary input texts are put together from, and the texts.
Pieces ==
  {WebpackRequire, NonWebpackImport,
   <<RootAssign(AMDName("main")), Factory>>,
   <<"__">>, <<"webpack_require">>, <<"__", "non_webpack_">>, <<"x">>}

RECURSIVE TextsOf(_)
TextsOf(n) ==
  IF n = 0 THEN {<<>>}
  ELSE LET shorter == TextsOf(n - 1)
       IN  shorter \cup {t \o piece : t \in shorter, piece \in Pieces}

\* Whether `search` occurs in s.
Occurs(search, s) ==
  \E i \in 1..(Len(s) + 1 - Len(search)) :
    SubSeq(s, i, i + Len(search) - 1) = search

PureTasks == {"replace", "postProcess", "checkChromePreferencesFile"}

(***************************************************************************)
(* checkChromePreferencesFile(chromePrefsPath, webPrefs).                  *)
(***************************************************************************)
\* The preference names and values of the inputs, and the descriptions a
\* schema entry may carry.
PrefKeys == <<"enableScripting", "sidebarViewOnLoad">>
PrefValues == {T, F}
Deprecated == "DEPRECATED. Set the new preference instead."
Descriptions == {Undefined, "", "Whether to enable the feature.", Deprecated}
\* description.startsWith("DEPRECATED.")
StartsWithDeprecated(description) == description = Deprecated

\* The objects with some of the keys and values drawn from `values`.
ObjectsOver(values) ==
  UNION {[keys -> values] : keys \in SUBSET Range(PrefKeys)}
\* chromePrefs.properties of a schema file, and the webPrefs objects.
SchemaProperties ==
  ObjectsOver([description : Descriptions, default : PrefValues])
WebPrefsObjects == ObjectsOver(PrefValues)

\* Object.keys(chromePrefs.properties).filter(...): the keys not deprecated.
chromePrefsKeys(properties) ==
  {key \in DOMAIN properties :
     \/ properties[key].description \in {Undefined, ""}
     \/ ~StartsWithDeprecated(properties[key].description)}

\* The warning, if any, each loop logs for a key.
MissingEntry(key) == <<"does not contain an entry for pref", key>>
NotSameValues(key) == <<"not the same values", key>>
Unrecognized(key) == <<"contains an unrecognized pref", key>>
\* The first loop with the comparison of the values left out.
WebPrefWarningKeysOnly(properties, prefs, key) ==
  IF key \notin DOMAIN prefs THEN <<>>
  ELSE IF key \notin chromePrefsKeys(properties) THEN <<MissingEntry(key)>>
  ELSE <<>>
WebPrefWarning(properties, prefs, key) ==
  IF key \notin DOMAIN prefs THEN <<>>
  ELSE IF key \notin chromePrefsKeys(properties) THEN <<MissingEntry(key)>>
  ELSE IF properties[key].default # prefs[key] THEN <<NotSameValues(key)>>
  ELSE <<>>
SchemaWarning(properties, prefs, key) ==
  IF key \in chromePrefsKeys(properties) /\ key \notin DOMAIN prefs
    THEN <<Unrecognized(key)>> ELSE <<>>

RECURSIVE Warnings(_, _, _, _)
Warnings(W(_, _, _), properties, prefs, keys) ==
  IF keys = <<>> THEN <<>>
  ELSE W(properties, prefs, Head(keys))
         \o Warnings(W, properties, prefs, Tail(keys))

\* The lines the function logs; ret is false exactly when a loop logged.
CheckWarnings(properties, prefs) ==
  Warnings(WebPrefWarning, properties, prefs, PrefKeys)
    \o Warnings(SchemaWarning, properties, prefs, PrefKeys)
checkChromePreferencesFile(properties, prefs) ==
  Bool(CheckWarnings(properties, prefs) = <<>>)

(***************************************************************************)
(* The pure functions: their inputs and the steps that apply them.         *)
(***************************************************************************)
NotPiped == [bundle |-> "main", input |-> <<>>, passes |-> <<>>]

InitPure ==
  /\ task \in PureTasks
  /\ dir = BUILD_DIR
  /\ defines = DEFINES
  /\ globalDefines = DEFINES
  /\ envTesting = Undefined
  /\ options = DefaultOptions
  /\ fs = NoFiles
  /\ pc = "done"
  /\ idx = 1
  /\ scriptingSrc = Absent
  /\ sandboxDefines = <<>>
  /\ config = NoConfig
  /\ branches = [b \in AllBranches |-> NoBranch]
  /\ result = "running"
  /\ error = NoError
  /\ minified = <<>>
  /\ readCount = 0
  /\ unlinkCount = 0
  /\ cleared = FALSE
  /\ written = {}
  /\ trace = <<>>
  /\ minifier = "terser"
  /\ before = NoFiles
  /\ tmpNames = <<>>
  /\ locals = <<>>
  /\ doneCalls = 0
  /\ libDefines = <<>>
  /\ runs = <<>>
  /\ log = <<>>
  /\ ret = Undefined
  /\ CASE task = "replace" ->
            /\ contents \in TextsOf(MaxPieces)
            /\ applied = [NotPiped EXCEPT !.input = contents]
       [] task = "postProcess" ->
            /\ \E b \in WebpackBranches, uses \in SUBSET {"require", "import"} :
                 /\ contents = WebpackOutput(b, uses)
                 /\ applied = [NotPiped EXCEPT !.bundle = b, !.input = contents]
       [] OTHER -> contents = <<>> /\ applied = NotPiped
  /\ IF task = "checkChromePreferencesFile"
       THEN chromePrefs \in SchemaProperties /\ webPrefs \in WebPrefsObjects
       ELSE chromePrefs = <<>> /\ webPrefs = <<>>

\* What a pure function leaves alone: all of the build's state.
buildVars ==
  <<task, dir, defines, globalDefines, envTesting, options, fs, pc, idx,
    scriptingSrc, sandboxDefines, config, branches, result, error, minified,
    readCount, unlinkCount, cleared, written, trace, minifier, before,
    tmpNames, locals, doneCalls, libDefines, runs>>

\* A text is piped through one of the passes, in whatever order.
Pipe(pass) ==
  /\ task = "replace"
  /\ Len(applied.passes) < MaxPasses
  /\ contents' = RunPass(pass, applied.bundle, contents)
  /\ applied' = [applied EXCEPT !.passes = Append(@, pass)]
  /\ UNCHANGED <<buildVars, log, chromePrefs, webPrefs, ret>>

\* A bundle is piped through the next pass of its create*Bundle function.
PipeNext ==
  /\ task = "postProcess"
  /\ Len(applied.passes) < Len(ChainOf(applied.bundle))
  /\ LET pass == ChainOf(applied.bundle)[Len(applied.passes) + 1]
     IN  /\ contents' = RunPass(pass, applied.bundle, contents)
         /\ applied' = [applied EXCEPT !.passes = Append(@, pass)]
  /\ UNCHANGED <<buildVars, log, chromePrefs, webPrefs, ret>>

CheckChromePreferencesFile ==
  /\ task = "checkChromePreferencesFile"
  /\ ret = Undefined
  /\ ret' = checkChromePreferencesFile(chromePrefs, webPrefs)
  /\ log' = log \o CheckWarnings(chromePrefs, webPrefs)
  /\ UNCHANGED <<buildVars, contents, applied, chromePrefs, webPrefs>>

NextPure ==
  \/ \E pass \in Passes : Pipe(pass)
  \/ PipeNext
  \/ CheckChromePreferencesFile

PureSpec == InitPure /\ [][NextPure]_vars

(***************************************************************************)
(* Two sandbox builds at the same time: each is the series of a scripting  *)
(* phase, createTemporaryScriptingBundle, and a sandbox phase,             *)
(* createSandboxBundle, and both use the one path ScriptingPath.  The      *)
(* synchronous body of a phase is one step; the streams end in any order.  *)
(***************************************************************************)
Runs == {1, 2}
RunKinds == {"dev-sandbox", "buildGeneric", "buildMinified"}

\* The flag set, the options and the destination of a build of each kind.
RunDefines(kind) ==
  CASE kind = "dev-sandbox" -> merge(DEFINES, [GENERIC |-> T, TESTING |-> T])
    [] kind = "buildGeneric" -> merge(DEFINES, [GENERIC |-> T])
    [] kind = "buildMinified" -> merge(DEFINES, [MINIFIED |-> T, GENERIC |-> T])
RunOptions(kind) ==
  IF kind = "dev-sandbox" THEN DevSandboxOptions ELSE DefaultOptions
RunDest(kind) ==
  CASE kind = "dev-sandbox" -> SANDBOX_DIR
    [] kind = "buildGeneric" -> GENERIC_DIR \o "build/"
    [] kind = "buildMinified" -> MINIFIED_DIR \o "build/"

\* The text run r's compilation of src/pdf.scripting.js gives.
RunScriptingText(r) == <<"pdf.scripting.js", "run", r>>

NoRun(kind) ==
  [kind |-> kind, pc |-> "start", embedded |-> Absent, error |-> NoError]

\* Everything but the file system and the runs.
raceFrame ==
  <<task, dir, defines, globalDefines, envTesting, options, pc, idx,
    scriptingSrc, sandboxDefines, config, branches, result, error, minified,
    readCount, unlinkCount, cleared, written, trace, minifier, before,
    tmpNames, locals, doneCalls, libDefines, log, pureVars>>

InitRace ==
  /\ task = "sandboxBuilds"
  /\ dir = BUILD_DIR
  /\ defines = DEFINES
  /\ globalDefines = DEFINES
  /\ envTesting = Undefined
  /\ options = DefaultOptions
  /\ fs \in {WriteAll(ver, tmp) :
               ver \in {NoFiles, Files({<<VersionJsonPath, <<"version.json">>>>})},
               tmp \in {NoFiles, Files({<<ScriptingPath, StaleScriptingText>>})}}
  /\ pc = "done"
  /\ idx = 1
  /\ scriptingSrc = Absent
  /\ sandboxDefines = <<>>
  /\ config = NoConfig
  /\ branches = [b \in AllBranches |-> NoBranch]
  /\ result = "running"
  /\ error = NoError
  /\ minified = <<>>
  /\ readCount = 0
  /\ unlinkCount = 0
  /\ cleared = FALSE
  /\ written = {}
  /\ trace = <<>>
  /\ minifier = "terser"
  /\ before = NoFiles
  /\ tmpNames = <<>>
  /\ locals = <<>>
  /\ doneCalls = 0
  /\ libDefines = <<>>
  /\ log = <<>>
  /\ ret = Undefined
  /\ contents = <<>>
  /\ applied = NotPiped
  /\ chromePrefs = <<>>
  /\ webPrefs = <<>>
  /\ \E kind \in RunKinds :
       runs = [r \in Runs |-> NoRun(IF r = 1 THEN "dev-sandbox" ELSE kind)]

\* createTemporaryScriptingBundle: the scripting stream is started.
RunScripting(r) ==
  /\ runs[r].pc = "start"
  /\ runs' = [runs EXCEPT ![r].pc = "scripting"]
  /\ UNCHANGED <<fs, raceFrame>>

\* The scripting stream writes ScriptingPath through gulp.dest(TMP_DIR) and
\* ends; the series goes on to the sandbox phase.
RunScriptingEnd(r) ==
  /\ runs[r].pc = "scripting"
  /\ fs' = WriteAll(fs, BundleOut(TMP_DIR, "", BundleName("scripting"),
                                  RunScriptingText(r), Undefined))
  /\ runs' = [runs EXCEPT ![r].pc = "series"]
  /\ UNCHANGED raceFrame

\* createDevSandbox, or the createSandboxBundle call of a builder: the
\* output directory of dev-sandbox is removed, the temporary file is read
\* and deleted, and the sandbox stream is started.
RunCreateSandbox(r) ==
  /\ runs[r].pc = "series"
  /\ LET kind == runs[r].kind
         cleaned == IF kind = "dev-sandbox" THEN Rimraf(fs, SANDBOX_DIR) ELSE fs
     IN  IF ~Exists(cleaned, ScriptingPath)
           THEN /\ runs' = [runs EXCEPT ![r].pc = "thrown",
                                        ![r].error = ENOENT(ScriptingPath)]
                /\ fs' = cleaned
         ELSE IF ConfigThrows(RunOptions(kind), cleaned)
           THEN /\ runs' = [runs EXCEPT
                              ![r].pc = "thrown",
                              ![r].error = ConfigError(RunOptions(kind), cleaned)]
                /\ fs' = Unlink(cleaned, ScriptingPath)
         ELSE /\ runs' = [runs EXCEPT ![r].pc = "sandbox",
                                      ![r].embedded = Read(cleaned, ScriptingPath)]
              /\ fs' = Unlink(cleaned, ScriptingPath)
  /\ UNCHANGED raceFrame

\* The sandbox stream writes pdf.sandbox.js, with the text it embedded, and
\* ends.
RunSandboxEnd(r) ==
  /\ runs[r].pc = "sandbox"
  /\ LET kind == runs[r].kind
         cfg == createWebpackConfig(
                  merge(RunDefines(kind),
                        [PDF_SCRIPTING_JS_SOURCE |-> runs[r].embedded]),
                  BundleName("sandbox"), RunOptions(kind), fs, envTesting)
     IN  fs' = WriteAll(fs, BundleOut(RunDest(kind), "", BundleName("sandbox"),
                                      SandboxText(cfg.defines), cfg.devtool))
  /\ runs' = [runs EXCEPT ![r].pc = "done"]
  /\ UNCHANGED raceFrame

NextRace ==
  \E r \in Runs :
    \/ RunScripting(r)
    \/ RunScriptingEnd(r)
    \/ RunCreateSandbox(r)
    \/ RunSandboxEnd(r)

RaceSpec == InitRace /\ [][NextRace]_vars

(***************************************************************************)
(* Properties.                                                             *)
(***************************************************************************)
IsPrefix(a, b) == Len(a) <= Len(b) /\ \A i \in 1..Len(a) : a[i] = b[i]

SandboxBuildOrder ==
  <<"ScriptingBuilt", "ScriptingRead", "SandboxDefineInjected",
    "ScriptingTempDeleted", "SandboxBuilt">>

\* C1: in the dev-sandbox task the steps happen in the order scripting
\* bundle written, content read, define injected, temporary file deleted,
\* sandbox bundle built; a completed run has taken exactly these steps, and
\* the read happens only after the scripting stream has ended, so that it
\* reads what this run wrote.
C1_SandboxStepsInOrder ==
  task = "dev-sandbox" =>
    /\ IsPrefix(trace, SandboxBuildOrder)
    /\ (readCount > 0 =>
          /\ branches["scripting"].st = "ended"
          /\ scriptingSrc = ScriptingText)
    /\ (result = "done" => trace = SandboxBuildOrder)

C1_Witness ==
  /\ task = "dev-sandbox"
  /\ result = "done"
  /\ trace = SandboxBuildOrder

\* C2: the temporary scripting file is deleted at most once, and only
\* after its content is in the sandbox flag set; it exists, holding the text
\* read, from the read until the delete; and it is gone, deleted once, from
\* the delete on, whether or not createWebpackConfig then succeeds.
C2_TempDeletedOnceAfterCapture ==
  /\ unlinkCount <= 1
  /\ (pc \in {"sbMerge", "sbUnlink"} =>
        /\ Exists(fs, ScriptingPath)
        /\ Read(fs, ScriptingPath) = scriptingSrc
        /\ unlinkCount = 0)
  /\ (unlinkCount = 1 =>
        /\ sandboxDefines # <<>>
        /\ sandboxDefines[1].PDF_SCRIPTING_JS_SOURCE = scriptingSrc
        /\ scriptingSrc # Absent)
  /\ (sandboxDefines # <<>> /\ pc # "sbUnlink" =>
        /\ ~Exists(fs, ScriptingPath)
        /\ unlinkCount = 1)

C2_Witness ==
  /\ branches["sandbox"].st = "ended"
  /\ unlinkCount = 1
  /\ ~Exists(fs, ScriptingPath)

\* C3: when the read of the temporary scripting file finds no file, the
\* build has failed with that error after one read, nothing was deleted, no
\* sandbox flag set, configuration, stream or bundle exists; and no flag set
\* ever holds the empty string as PDF_SCRIPTING_JS_SOURCE.
C3_MissingTempAborts ==
  /\ (error = ENOENT(ScriptingPath) =>
        /\ result = "error"
        /\ pc = "thrown"
        /\ readCount = 1
        /\ unlinkCount = 0
        /\ sandboxDefines = <<>>
        /\ branches["sandbox"].st = "none"
        /\ (config # NoConfig => config[1].output # "pdf.sandbox.js")
        /\ ~Exists(fs, Under(dir, SandboxDest \o "pdf.sandbox.js")))
  /\ (sandboxDefines # <<>> =>
        sandboxDefines[1].PDF_SCRIPTING_JS_SOURCE # Empty)
  /\ (config # NoConfig =>
        ("PDF_SCRIPTING_JS_SOURCE" \in DOMAIN config[1].defines =>
           config[1].defines.PDF_SCRIPTING_JS_SOURCE # Empty))

C3_Witness ==
  /\ error = ENOENT(ScriptingPath)
  /\ readCount = 1
  /\ branches["main"].st = "ended"

SlotNames ==
  {"pdfjs", "pdfjs-web", "pdfjs-lib",
   "display-fetch_stream", "display-l10n_utils", "display-network",
   "display-node_stream", "display-node_utils", "display-svg",
   "web-annotation_editor_params", "web-com", "web-pdf_attachment_viewer",
   "web-pdf_cursor_tools", "web-pdf_document_properties", "web-pdf_find_bar",
   "web-pdf_layer_viewer", "web-pdf_outline_viewer",
   "web-pdf_presentation_mode", "web-pdf_sidebar",
   "web-pdf_thumbnail_viewer", "web-print_service", "web-secondary_toolbar",
   "web-toolbar"}

\* C4: every configuration createWebpackConfig returns has an alias table
\* over exactly the 23 slot names, each with an absolute path.
C4_AliasTotal ==
  config # NoConfig =>
    /\ DOMAIN config[1].alias = SlotNames
    /\ Cardinality(DOMAIN config[1].alias) = 23
    /\ \A k \in SlotNames : IsAbsolute(config[1].alias[k])

C4_Witness ==
  /\ task = "createWebpackConfig"
  /\ config # NoConfig
  /\ \A k \in {"CHROME", "GENERIC", "MOZCENTRAL", "GECKOVIEW"} :
       config[1].defines[k] = F

NoTargetSelected(c) ==
  /\ ~Truthy(Get(c.defines, "CHROME"))
  /\ ~Truthy(Get(c.defines, "GENERIC"))
  /\ ~Truthy(Get(c.defines, "MOZCENTRAL"))

StubPath == PathJoin(DIRNAME, "src/display/stubs.js")
IsStub(path) ==
  path \in {StubPath, PathJoin(DIRNAME, "web/stubs-geckoview.js")}

\* C5 as stated: with none of CHROME, GENERIC and MOZCENTRAL set, every
\* library and viewer slot, web-com and web-print_service included, resolves
\* to a stub file.
C5_FallbackAllStubs ==
  config # NoConfig /\ NoTargetSelected(config[1]) =>
    \A k \in LibrarySlots \cup ViewerSlots : IsStub(config[1].alias[k])

\* C5 as amended: with none of CHROME, GENERIC and MOZCENTRAL set, every
\* display-* slot resolves to src/display/stubs.js, every viewer slot to its
\* default web/ file and none to a stub, and web-com and web-print_service,
\* whose default is the empty string, to the repository root directory.
C5_FallbackLibraryStubs ==
  config # NoConfig /\ NoTargetSelected(config[1]) =>
    /\ \A k \in LibrarySlots : config[1].alias[k] = StubPath
    /\ \A k \in ViewerSlots :
         /\ config[1].alias[k] = PathJoin(DIRNAME, viewerAliasDefault[k])
         /\ ~IsStub(config[1].alias[k])
    /\ config[1].alias["web-com"] = <<DIRNAME>>
    /\ config[1].alias["web-print_service"] = <<DIRNAME>>

C5_Witness ==
  /\ config # NoConfig
  /\ NoTargetSelected(config[1])
  /\ config[1].defines.GECKOVIEW = T

GenericTestingDefines == merge(DEFINES, [GENERIC |-> T, TESTING |-> T])

\* C6: for DEFINES merged with {GENERIC: true, TESTING: true} the network,
\* localization, filesystem and SVG slots and web-com and web-print_service
\* resolve to the generic implementations, none to an extension file or a
\* stub.
C6_GenericTestingAlias ==
  config # NoConfig /\ config[1].input = GenericTestingDefines =>
    LET alias == config[1].alias
    IN  /\ alias["display-fetch_stream"] =
             <<DIRNAME, "src/display/fetch_stream.js">>
        /\ alias["display-network"] = <<DIRNAME, "src/display/network.js">>
        /\ alias["display-l10n_utils"] = <<DIRNAME, "web/l10n_utils.js">>
        /\ alias["display-node_stream"] =
             <<DIRNAME, "src/display/node_stream.js">>
        /\ alias["display-node_utils"] =
             <<DIRNAME, "src/display/node_utils.js">>
        /\ alias["display-svg"] = <<DIRNAME, "src/display/svg.js">>
        /\ alias["web-com"] = <<DIRNAME, "web/genericcom.js">>
        /\ alias["web-print_service"] = <<DIRNAME, "web/pdf_print_service.js">>
        /\ \A k \in LibrarySlots \cup {"web-com", "web-print_service"} :
             /\ ~IsStub(alias[k])
             /\ alias[k] \notin
                  {<<DIRNAME, "web/chromecom.js">>,
                   <<DIRNAME, "web/firefoxcom.js">>,
                   <<DIRNAME, "web/firefox_print_service.js">>}

C6_Witness ==
  /\ task = "dev-sandbox"
  /\ config # NoConfig
  /\ config[1].input = GenericTestingDefines

\* The keys createWebpackConfig overrides.
BundleOverrideKeys ==
  {"BUNDLE_VERSION", "BUNDLE_BUILD", "TESTING", "DEFAULT_PREFERENCES"}

\* C7: the merges of the build functions are last-write-wins per key: the
\* merged flag set holds the keys of both arguments, an overridden key has
\* the override's value, every other key the base's value, a key the base
\* does not know is admitted; and the frozen DEFINES stays as written.
C7_MergeLastWriteWins ==
  /\ globalDefines = DEFINES
  /\ (config # NoConfig =>
        LET c == config[1]
        IN  /\ DOMAIN c.defines = DOMAIN c.input \cup BundleOverrideKeys
            /\ \A k \in DOMAIN c.input \ BundleOverrideKeys :
                 c.defines[k] = c.input[k]
            /\ c.defines.TESTING =
                 Nullish(Get(c.input, "TESTING"), Bool(envTesting = "true"))
            /\ c.defines.TESTING \in {T, F})
  /\ (sandboxDefines # <<>> =>
        /\ DOMAIN sandboxDefines[1] =
             DOMAIN SandboxArgDefines \cup {"PDF_SCRIPTING_JS_SOURCE"}
        /\ \A k \in DOMAIN SandboxArgDefines :
             sandboxDefines[1][k] = SandboxArgDefines[k]
        /\ sandboxDefines[1].PDF_SCRIPTING_JS_SOURCE = scriptingSrc)

C7_Witness ==
  /\ config # NoConfig
  /\ sandboxDefines # <<>>
  /\ config[1].input = sandboxDefines[1]
  /\ config[1].input.TESTING = Undefined
  /\ config[1].defines.TESTING = T

\* C8 as stated: a target builder, buildLib included, removes its output
\* directory before any of its streams writes, so a completed build leaves
\* only files it wrote in the directory.
C8_OutputDirClearedFirst ==
  task \in TargetBuilders \cup {"buildLib"} =>
    /\ (written # {} => cleared)
    /\ (result = "done" => FilesUnder(fs, dir) \subseteq written)

\* What holds of the builders that do call rimraf.sync(dir).
CleaningBuildersClearFirst ==
  task \in TargetBuilders =>
    /\ (written # {} => cleared)
    /\ (result = "done" => FilesUnder(fs, dir) \subseteq written)

\* C9: a target build reports completion only when every stream of its
\* fan-out set has ended and its files are written, in whatever order the
\* streams ended.
C9_CompletionAfterAllBranches ==
  task \in TargetBuilders /\ result = "done" =>
    \A b \in Range(BranchOrder(task)) :
      /\ branches[b].st = "ended"
      /\ \A p \in DOMAIN BranchOut(b) : Exists(fs, p)

C9_Witness ==
  /\ task = "buildGeneric"
  /\ result = "done"
  /\ \A b \in Range(GenericBranches) : branches[b].st = "ended"

\* The text a path of the minified directory held when the stage read it.
OriginalHeld(p) == Exists(fs, p) /\ Read(fs, p) = minified[p]

\* C10 as stated: throughout the minification stage every original name
\* holds its original text or its minified text, never nothing, and after a
\* failed minify call every original holds its original text.
C10_OriginalsNeverMissing ==
  task = "parseMinified" /\ minified # <<>> =>
    /\ \A p \in MinifiedOriginals(dir) :
         /\ Exists(fs, p)
         /\ Read(fs, p) \in {minified[p], Minify(minified[p])}
    /\ (error = MinifyError =>
          \A p \in MinifiedOriginals(dir) : OriginalHeld(p))

\* C10 as amended: until all five minify calls have succeeded, and so
\* after any failed one, every original holds its original text; in the
\* cleaning that follows only image_decoders/pdf.image_decoders.js is
\* replaced in one step and always holds its original or its minified text.
C10_OriginalsKeptUntilCleaning ==
  task = "parseMinified" /\ minified # <<>> =>
    /\ (pc = "minify" \/ error = MinifyError =>
          \A p \in MinifiedOriginals(dir) : OriginalHeld(p))
    /\ LET p == Under(dir, "image_decoders/pdf.image_decoders.js")
       IN  /\ Exists(fs, p)
           /\ Read(fs, p) \in {minified[p], Minify(minified[p])}

C10_Witness ==
  /\ task = "parseMinified"
  /\ error = MinifyError
  /\ Exists(fs, Under(dir, "build/pdf.worker.min.js"))
  /\ \A p \in MinifiedOriginals(dir) : OriginalHeld(p)

\* The paths the cleaning of parseMinified deletes for good, and the one it
\* adds.
MinifiedRemoved(d) == {Under(d, "web/viewer.js"), Under(d, "web/debugger.js")}
MinifiedAdded(d) == Under(d, "web/pdf.viewer.js")

\* C11 as stated: with a minifier that returns its input unchanged, a
\* completed parseMinified leaves the directory as buildMinified left it: the
\* same paths with the same contents.
C11_IdentityMinifyRoundTrip ==
  task = "parseMinified" /\ minifier = "identity" /\ result = "done" =>
    fs = before

\* C11 as amended: with a minifier that returns its input unchanged, a
\* completed parseMinified leaves every file as it was except three:
\* web/viewer.js and web/debugger.js are gone, and web/pdf.viewer.js is new
\* and holds the text of build/pdf.js followed by that of web/viewer.js.
C11_IdentityMinifyKeepsBundles ==
  task = "parseMinified" /\ minifier = "identity" /\ result = "done" =>
    /\ DOMAIN fs =
         (DOMAIN before \ MinifiedRemoved(dir)) \cup {MinifiedAdded(dir)}
    /\ \A p \in DOMAIN fs \ {MinifiedAdded(dir)} : fs[p] = before[p]
    /\ MinifiedOriginals(dir) \ MinifiedRemoved(dir) \subseteq DOMAIN fs
    /\ fs[MinifiedAdded(dir)] =
         before[Under(dir, "build/pdf.js")]
           \o before[Under(dir, "web/viewer.js")]

C11_Witness ==
  /\ task = "parseMinified"
  /\ minifier = "identity"
  /\ result = "done"
  /\ MinifiedRemoved(dir) \subseteq DOMAIN before
  /\ Read(fs, Under(dir, "build/pdf.js")) = <<"pdf.js">>

\* The passes in the order createMainBundle pipes them.
CodeOrder == ChainOf("main")
Last(s) == s[Len(s)]
Front(s) == SubSeq(s, 1, Len(s) - 1)
IsOrderOfAll(passes) ==
  Len(passes) = Cardinality(Passes) /\ Range(passes) = Passes

\* C12 as stated: each of the three passes is idempotent (piping a text
\* through the same pass a second time changes nothing), and the three
\* passes piped in any of the six orders give the text the order of the code
\* gives, for every input text.
C12_PassesIdempotentAndCommute ==
  task = "replace" =>
    /\ (Len(applied.passes) >= 2
          /\ Last(applied.passes) = Last(Front(applied.passes)) =>
          contents = RunPasses(Front(applied.passes), applied.bundle,
                               applied.input))
    /\ (IsOrderOfAll(applied.passes) =>
          contents = RunPasses(CodeOrder, applied.bundle, applied.input))

\* What holds of replaceJSRootName: it is idempotent, and piping it before or
\* after either other pass gives the same text.
ReplaceJSRootNameCommutes ==
  task = "replace" /\ Len(applied.passes) = 2
    /\ "replaceJSRootName" \in Range(applied.passes) =>
      /\ contents =
           RunPasses(<<applied.passes[2], applied.passes[1]>>,
                     applied.bundle, applied.input)
      /\ (applied.passes[1] = applied.passes[2] =>
            contents =
              RunPass("replaceJSRootName", applied.bundle, applied.input))

\* A bundle has been piped through all the passes of its function.
PostProcessed ==
  /\ task = "postProcess"
  /\ applied.passes = ChainOf(applied.bundle)
BothAssigned(b) == <<RootAssign(AMDName(b)), LegacyAssign(JSName(b)), Factory>>

\* C13 as stated: every bundle that declares a library name, the scripting
\* bundle included, assigns the factory's result to root["<amdName>"] and to
\* root.<jsName> once it is post-processed.
C13_LegacyAndModuleName ==
  PostProcessed /\ applied.bundle \in LibraryBundles =>
    Occurs(BothAssigned(applied.bundle), contents)

\* C13 as amended: the main, worker, sandbox, components and image decoders
\* bundles assign the factory's result to root["<amdName>"] and to
\* root.<jsName>; the scripting bundle assigns it to root.pdfjsScripting
\* only, its root["<amdName>"] assignment being replaced.
C13_LegacyNamePerBundle ==
  PostProcessed /\ applied.bundle \in LibraryBundles =>
    IF applied.bundle = "scripting"
      THEN /\ Occurs(<<LegacyAssign("pdfjsScripting"), Factory>>, contents)
           /\ ~Occurs(<<RootAssign(AMDName("scripting"))>>, contents)
      ELSE /\ Occurs(BothAssigned(applied.bundle), contents)
           /\ ~Occurs(<<RootAssign(AMDName(applied.bundle)), Factory>>,
                      contents)

C13_Witness ==
  /\ PostProcessed
  /\ applied.bundle = "image_decoders"
  /\ Occurs(<<RootAssign(AMDName("image_decoders")), Factory>>, applied.input)
  /\ Occurs(BothAssigned("image_decoders"), contents)

\* The TESTING flag createWebpackConfig resolves for a caller's flag set.
ResolvedTesting(input, env) ==
  Nullish(Get(input, "TESTING"), Bool(env = "true"))

\* The flag sets and options that ask for source maps.
WantsSourceMaps(input, opts, env) ==
  /\ Get(input, "MOZCENTRAL") # T
  /\ Get(input, "CHROME") # T
  /\ Get(input, "LIB") # T
  /\ ResolvedTesting(input, env) # T
  /\ opts.disableSourceMaps # T

\* C14: the configuration createWebpackConfig returns has devtool
\* "source-map" exactly when none of MOZCENTRAL, CHROME, LIB and the resolved
\* TESTING flag is set and disableSourceMaps was not passed, and undefined
\* otherwise; the glyphlist/unicode sources are excluded from Babel exactly
\* when devtool is "source-map".
C14_SourceMapsExactlyWhenAllowed ==
  /\ (task = "createWebpackConfig" /\ config # NoConfig =>
        /\ config[1].devtool =
             IF WantsSourceMaps(config[1].input, options, envTesting)
               THEN "source-map" ELSE Undefined)
  /\ (config # NoConfig =>
        /\ config[1].devtool \in {"source-map", Undefined}
        /\ config[1].excludeGlyphlist = Bool(config[1].devtool = "source-map")
        /\ (config[1].devtool = "source-map" =>
              /\ ~Truthy(config[1].defines.TESTING)
              /\ ~Truthy(config[1].defines.MOZCENTRAL)
              /\ ~Truthy(config[1].defines.CHROME)
              /\ ~Truthy(config[1].defines.LIB)))
  /\ (task = "dev-sandbox" /\ config # NoConfig => config[1].devtool = Undefined)

C14_Witness ==
  /\ task = "createWebpackConfig"
  /\ config # NoConfig
  /\ config[1].devtool = "source-map"
  /\ config[1].excludeGlyphlist = T
  /\ config[1].input.TESTING = Undefined
  /\ config[1].input.GENERIC = T

\* The queries of createBuildNumber that failed, and the warnings it logged.
FailedQueries ==
  (IF locals[1].err THEN {"git log"} ELSE {})
    \cup (IF locals[1].err2 THEN {"git log -n 1"} ELSE {})
WarningsLogged ==
  {i \in 1..Len(log) :
     /\ log[i] \notin {<<"">>, <<"### Getting extension build number">>}
     /\ log[i] # BuildNumberLine(locals[1].buildNumber)}

\* What createBuildNumber does whatever the two queries give: the build
\* number is 0 when the first failed, the commit is empty when the second
\* failed, version.json holds version = versionPrefix + buildNumber, and done
\* is called once, with version.json written.
BuildNumberDegrades ==
  task = "createBuildNumber" =>
    /\ doneCalls <= 1
    /\ (doneCalls = 1) = (result = "done")
    /\ (result = "done" =>
          /\ Exists(fs, VersionJsonPath)
          /\ Read(fs, VersionJsonPath) =
               VersionJson(versionPrefix \o ToString(locals[1].buildNumber),
                           locals[1].buildNumber, locals[1].buildCommit)
          /\ (locals[1].err => locals[1].buildNumber = 0)
          /\ (locals[1].err2 => locals[1].buildCommit = "")
          /\ (~locals[1].err2 => locals[1].buildCommit = CommitHash))

\* C15 as stated: whatever the two git queries give, createBuildNumber logs
\* a warning for each failure, degrades to the default descriptor, writes
\* version.json and calls done once, after version.json is written.
C15_BuildNumberToleratesGitFailure ==
  /\ BuildNumberDegrades
  /\ (task = "createBuildNumber" /\ result = "done" =>
        Cardinality(WarningsLogged) = Cardinality(FailedQueries))

NotDeprecated ==
  {key \in DOMAIN chromePrefs : chromePrefs[key].description # Deprecated}

\* C17: checkChromePreferencesFile returns a boolean for every schema and
\* webPrefs; it returns true exactly when the keys of the schema not marked
\* DEPRECATED are the keys of webPrefs and every schema default equals the
\* webPrefs value; a key marked DEPRECATED that webPrefs still lists makes it
\* false; it logs a warning exactly when it returns false.
C17_ChromePreferencesCheck ==
  task = "checkChromePreferencesFile" /\ ret # Undefined =>
    /\ ret \in {T, F}
    /\ (ret = T) =
         (/\ NotDeprecated = DOMAIN webPrefs
          /\ \A key \in DOMAIN webPrefs :
               chromePrefs[key].default = webPrefs[key])
    /\ ((\E key \in DOMAIN webPrefs \cap DOMAIN chromePrefs :
           chromePrefs[key].description = Deprecated) => ret = F)
    /\ (ret = F) = (log # <<>>)

C17_Witness ==
  /\ task = "checkChromePreferencesFile"
  /\ ret = T
  /\ DOMAIN webPrefs = {"enableScripting"}
  /\ DOMAIN chromePrefs = {"enableScripting", "sidebarViewOnLoad"}
  /\ chromePrefs["sidebarViewOnLoad"].description = Deprecated

\* The target identities a flag set names: generic, extension (MOZCENTRAL or
\* CHROME), minified, lib, components, image_decoders.
TargetGroups(d) ==
  (IF Get(d, "GENERIC") = T THEN {"generic"} ELSE {})
    \cup (IF Get(d, "MOZCENTRAL") = T \/ Get(d, "CHROME") = T
            THEN {"extension"} ELSE {})
    \cup (IF Get(d, "MINIFIED") = T THEN {"minified"} ELSE {})
    \cup (IF Get(d, "LIB") = T THEN {"lib"} ELSE {})
    \cup (IF Get(d, "COMPONENTS") = T THEN {"components"} ELSE {})
    \cup (IF Get(d, "IMAGE_DECODERS") = T THEN {"image_decoders"} ELSE {})

BuildFunctions ==
  {"buildGeneric", "buildComponents", "buildMinified",
   "buildDefaultPreferences"}

\* A build function has handed the bundler a flag set, and its caller named
\* exactly one target identity.
HandedBySingleTargetCaller ==
  /\ task \in BuildFunctions
  /\ config # NoConfig
  /\ Cardinality(TargetGroups(defines)) = 1

\* The bundle the latest configuration was made for.
IsImageDecodersConfig == config[1].output = BundleName("image_decoders")

\* C18 as stated: every flag set a build function hands to the bundler names
\* exactly one target identity when the caller's flag set named exactly one.
C18_ExactlyOneTargetFlag ==
  HandedBySingleTargetCaller =>
    Cardinality(TargetGroups(config[1].input)) = 1

\* C18: every flag set a build function hands to the bundler keeps the
\* caller's target identity; buildMinified adds image_decoders for the image
\* decoders bundle and buildDefaultPreferences adds lib, and nothing else is
\* ever added.
C18_CallerTargetKeptPlusMerges ==
  HandedBySingleTargetCaller =>
    TargetGroups(config[1].input) =
      TargetGroups(defines)
        \cup (IF task = "buildMinified" /\ IsImageDecodersConfig
                THEN {"image_decoders"} ELSE {})
        \cup (IF task = "buildDefaultPreferences" THEN {"lib"} ELSE {})

C18_Witness ==
  /\ HandedBySingleTargetCaller
  /\ task = "buildDefaultPreferences"
  /\ TargetGroups(defines) = {"generic"}
  /\ TargetGroups(config[1].input) = {"generic", "lib"}
  /\ result = "done"

\* The branches of the fan-out that are running.
Running == {b \in AllBranches : branches[b].st = "inflight"}

\* C19: within the fan-out of buildGeneric, buildMinified or buildComponents
\* the destination paths of any two running branches are disjoint, the
\* temporary files of the preprocessHTML and preprocessCSS calls are pairwise
\* distinct, and each is gone from the file system once its call has returned.
C19_FanOutPathsDisjoint ==
  task \in TargetBuilders =>
    /\ \A b1 \in Running : \A b2 \in Running \ {b1} :
         DOMAIN BranchOut(b1) \cap DOMAIN BranchOut(b2) = {}
    /\ \A i \in DOMAIN tmpNames : \A j \in DOMAIN tmpNames :
         i # j => tmpNames[i] # tmpNames[j]
    /\ \A i \in DOMAIN tmpNames : tmpNames[i] \notin DOMAIN fs

\* Both preprocess calls of one fan-out drew the same random bytes, and the
\* branches they feed are running next to others.
C19_Witness ==
  /\ task = "buildGeneric"
  /\ \E bytes \in RandomBytes :
       tmpNames = <<TempFile("~preprocess", bytes, ".html"),
                    TempFile("~preprocess", bytes, ".css")>>
  /\ {"html", "css", "web"} \subseteq Running

\* The latest configuration was made for the extension target.
ChromeConfig == config # NoConfig /\ Truthy(Get(config[1].defines, "CHROME"))

\* The network slots and web-com as the CHROME branches assign them.
ChromeNetworkAndCom ==
  /\ config[1].alias["display-fetch_stream"] =
       PathJoin(DIRNAME, "src/display/fetch_stream.js")
  /\ config[1].alias["display-network"] =
       PathJoin(DIRNAME, "src/display/network.js")
  /\ config[1].alias["web-com"] = PathJoin(DIRNAME, "web/chromecom.js")

\* C20 as stated: with CHROME set the network slots resolve to
\* fetch_stream.js and network.js, the filesystem slots display-node_stream
\* and display-node_utils to the Node.js implementations, and web-com to
\* web/chromecom.js.
C20_ChromeNativeFilesystem ==
  ChromeConfig =>
    /\ ChromeNetworkAndCom
    /\ config[1].alias["display-node_stream"] =
         PathJoin(DIRNAME, "src/display/node_stream.js")
    /\ config[1].alias["display-node_utils"] =
         PathJoin(DIRNAME, "src/display/node_utils.js")

\* C20: with CHROME set the network slots resolve to fetch_stream.js and
\* network.js, web-com to web/chromecom.js and web-print_service to
\* web/pdf_print_service.js, whatever the other flags are; the filesystem
\* slots and the other display-* slots stay on src/display/stubs.js.
C20_ChromeNetworkAndStubs ==
  ChromeConfig =>
    /\ ChromeNetworkAndCom
    /\ config[1].alias["web-print_service"] =
         PathJoin(DIRNAME, "web/pdf_print_service.js")
    /\ \A k \in LibrarySlots \ {"display-fetch_stream", "display-network"} :
         config[1].alias[k] = StubPath

C20_Witness ==
  /\ ChromeConfig
  /\ task = "createWebpackConfig"
  /\ Truthy(Get(config[1].defines, "GENERIC"))
  /\ config[1].alias["display-node_stream"] = StubPath
  /\ config[1].alias["web-com"] = PathJoin(DIRNAME, "web/chromecom.js")

\* The latest configuration was made with GECKOVIEW set.
GeckoviewConfig ==
  config # NoConfig /\ Truthy(Get(config[1].defines, "GECKOVIEW"))

\* The branch of the alias builder a flag set selects.
BranchTaken(d) ==
  IF Truthy(Get(d, "CHROME")) THEN "CHROME"
  ELSE IF Truthy(Get(d, "GENERIC")) THEN "GENERIC"
  ELSE IF Truthy(Get(d, "MOZCENTRAL")) THEN "MOZCENTRAL"
  ELSE "none"

\* The viewer slots as the GECKOVIEW override leaves them.
GeckoviewOverride ==
  /\ config[1].alias["web-toolbar"] =
       PathJoin(DIRNAME, "web/toolbar-geckoview.js")
  /\ config[1].alias["web-com"] = PathJoin(DIRNAME, "web/firefoxcom.js")
  /\ config[1].alias["web-print_service"] =
       PathJoin(DIRNAME, "web/firefox_print_service.js")
  /\ \A k \in ViewerSlots \ {"web-toolbar", "web-com", "web-print_service"} :
       config[1].alias[k] = PathJoin(DIRNAME, "web/stubs-geckoview.js")

\* C21 as stated: whenever GECKOVIEW is set, web-toolbar resolves to
\* web/toolbar-geckoview.js, web-com and web-print_service to the Firefox
\* files and every other viewer slot to web/stubs-geckoview.js.
C21_GeckoviewAlwaysOverrides == GeckoviewConfig => GeckoviewOverride

\* C21: with GECKOVIEW set the override applies exactly when the MOZCENTRAL
\* branch is the one taken (MOZCENTRAL set, CHROME and GENERIC not); in
\* every other case no viewer slot resolves to a GeckoView file and
\* web-toolbar stays web/toolbar.js.
C21_GeckoviewOverridesUnderMozcentral ==
  GeckoviewConfig =>
    IF BranchTaken(config[1].defines) = "MOZCENTRAL"
      THEN GeckoviewOverride
      ELSE /\ config[1].alias["web-toolbar"] =
                PathJoin(DIRNAME, "web/toolbar.js")
           /\ \A k \in ViewerSlots :
                config[1].alias[k] \notin
                  {PathJoin(DIRNAME, "web/toolbar-geckoview.js"),
                   PathJoin(DIRNAME, "web/stubs-geckoview.js")}

C21_Witness ==
  /\ GeckoviewConfig
  /\ task = "createGVWebBundle"
  /\ Get(defines, "GECKOVIEW") = F
  /\ BranchTaken(config[1].defines) = "MOZCENTRAL"
  /\ GeckoviewOverride

TargetFlags == {"CHROME", "GENERIC", "MOZCENTRAL"}

\* The flag set d with every target flag but `flag` cleared.
OnlyTarget(d, flag) ==
  [k \in DOMAIN d |-> IF k \in TargetFlags \ {flag} THEN F ELSE d[k]]

\* The latest configuration was made with more than one target flag set.
SeveralTargets ==
  /\ config # NoConfig
  /\ Cardinality({k \in TargetFlags : Truthy(Get(config[1].defines, k))}) > 1

\* web-com as each branch assigns it.
ComOf(branch) ==
  CASE branch = "CHROME" -> "web/chromecom.js"
    [] branch = "GENERIC" -> "web/genericcom.js"
    [] branch = "MOZCENTRAL" -> "web/firefoxcom.js"

\* C22: with more than one of CHROME, GENERIC and MOZCENTRAL set, the alias
\* table is the table of the highest-priority flag alone (CHROME over GENERIC
\* over MOZCENTRAL); and for every flag set, flipping GECKOVIEW changes the
\* table exactly when the MOZCENTRAL branch is the one taken.
C22_BranchPriority ==
  config # NoConfig =>
    LET d == config[1].defines
        taken == BranchTaken(d)
        flipped == [d EXCEPT !.GECKOVIEW = IF Truthy(@) THEN F ELSE T]
    IN  /\ SeveralTargets =>
             /\ taken = IF Truthy(d.CHROME) THEN "CHROME" ELSE "GENERIC"
             /\ config[1].alias = Alias(OnlyTarget(d, taken))
             /\ config[1].alias["web-com"] = PathJoin(DIRNAME, ComOf(taken))
        /\ (Alias(flipped) # config[1].alias) <=> (taken = "MOZCENTRAL")

C22_Witness ==
  /\ SeveralTargets
  /\ \A k \in TargetFlags : Truthy(Get(config[1].defines, k))
  /\ Truthy(Get(config[1].defines, "GECKOVIEW"))
  /\ config[1].alias["web-com"] = PathJoin(DIRNAME, "web/chromecom.js")
  /\ config[1].alias["web-toolbar"] = PathJoin(DIRNAME, "web/toolbar.js")

\* The TESTING value `resolved` is what a caller's value `given` and the
\* environment determine: a boolean, the explicit boolean when there is one,
\* and otherwise true exactly for the environment string "true".
TestingResolved(given, resolved) ==
  /\ resolved \in {T, F}
  /\ (given \in {T, F} => resolved = given)
  /\ (given \in {Undefined, Null} => (resolved = T <=> envTesting = "true"))

\* C23: the TESTING define that createWebpackConfig, buildDefaultPreferences
\* and buildLib hand on is a boolean; an explicit true or false of the caller
\* is kept whatever the environment says, and for undefined or null it is
\* true exactly when the environment variable TESTING is "true".  With an
\* explicit false, source maps are not suppressed on account of TESTING even
\* when the environment says "true".
C23_TestingResolvedToBoolean ==
  /\ (config # NoConfig =>
        /\ TestingResolved(Get(config[1].input, "TESTING"),
                           config[1].defines.TESTING)
        /\ (task = "buildDefaultPreferences" =>
              TestingResolved(Get(defines, "TESTING"),
                              Get(config[1].input, "TESTING")))
        /\ (/\ task = "createWebpackConfig"
            /\ Get(config[1].input, "TESTING") = F
            /\ ~Truthy(Get(config[1].input, "MOZCENTRAL"))
            /\ ~Truthy(Get(config[1].input, "CHROME"))
            /\ ~Truthy(Get(config[1].input, "LIB"))
            /\ ~Truthy(options.disableSourceMaps)
            => config[1].devtool = "source-map"))
  /\ (libDefines # <<>> =>
        TestingResolved(Get(defines, "TESTING"), libDefines[1].TESTING))

\* An explicit false met an environment that says "true", and source maps
\* stayed on.
C23_Witness ==
  /\ task = "createWebpackConfig"
  /\ config # NoConfig
  /\ Get(config[1].input, "TESTING") = F
  /\ envTesting = "true"
  /\ config[1].defines.TESTING = F
  /\ config[1].devtool = "source-map"

\* C24 as stated: whatever the interleaving of two sandbox builds, each
\* embeds the scripting text its own scripting phase wrote and neither fails
\* on a missing temporary file.
C24_ConcurrentSandboxBuildsIsolated ==
  \A r \in DOMAIN runs :
    /\ runs[r].embedded \in {Absent, RunScriptingText(r)}
    /\ runs[r].error # ENOENT(ScriptingPath)

====
